---- MODULE Spec2Model ----
(***************************************************************************)
(* A model of the benchmark orchestration engine of                        *)
(* llm-structured-response-benchmark: the four scenario loops of           *)
(* src/lib/test-runner.ts, the schemas and the merge of the three          *)
(* sequential parts, the metrics aggregator calculateScenarioSummary, the  *)
(* run route with its progress tracking, and the storage of the runs       *)
(* (data/index.json and data/results).                                     *)
(*                                                                         *)
(* Conventions.                                                            *)
(*   - A JavaScript value that may be null or undefined is a sequence of   *)
(*     length at most one: Null is <<>>, Some(v) is <<v>>.                 *)
(*   - A JavaScript number that results from a division is a rational      *)
(*     [num, den]; sums and counts are integers.                           *)
(*   - Strings are TLA+ strings; Len gives their length.                   *)
(***************************************************************************)
EXTENDS Integers, Sequences, FiniteSets, TLC

VARIABLES
    \* ---- the engine (runModelTests and the scenario loops) ----
    config,        \* TestConfig: [maxRetries, runsPerScenario]
    modelIds,      \* the model ids handed to runFullTestSuite
    scenarios,     \* the scenario ids handed to runModelTests
    usage,         \* whether the provider reports token usage (Null or Some)
    rejection,     \* the error a generator call of this execution rejects with
    pc,            \* "start" | "awaiting" | "returned" | "threw"
    modelIdx,      \* position in modelIds of the model being run
    scenarioIdx,   \* position in scenarios of the scenario being run
    runNum,        \* runNum of the run in progress
    step,          \* the step (stage) of the run in progress, 1 for one-shot
    attempt,       \* the attempt whose generator call is in flight
    attempts,      \* the attempts recorded so far for the run in progress
    stepResults,   \* the validated step results of the run in progress
    runs,          \* the runs finished so far in the scenario in progress
    results,       \* scenario id -> ScenarioResult, for the scenarios finished
    suiteResults,  \* model id -> results, for the models finished
    callCount,     \* the generator calls begun so far
    rejectedCalls, \* the generator calls that rejected so far
    messages,      \* the message list of the generator call in flight
    lastCall,      \* Null, or Some(the last generator call that came back:
                   \* its scenario, its outcome, the attempt recorded for it)
    activeRun,     \* the ActiveRun of runTestsInBackground: status, results,
                   \* summary, error
    cancelAccepted, \* Null, or Some(callCount when DELETE set status 'cancelled')
    emitted,       \* the progress callbacks made since the previous generator
                   \* call came back, in order
    tracker,       \* activeRun.progress with lastModel and lastScenario
    \* ---- storage: data/index.json and data/results ----
    indexRuns,     \* the runs list of data/index.json, newest first
    files,         \* file name of data/results -> the TestRunFile it holds
    sOp,           \* Null, or Some(the storage call made last: its name, its
                   \* argument, what it returned and the store before it)
    activeRuns,    \* the activeRuns map: run id -> ActiveRun
    handled,       \* the POST requests handled so far
    lastPost,      \* Null, or Some(body, response and background call of the
                   \* POST request handled last)
    uRun,          \* the TestRunFile handed to updateRunSummary
    uBefore,       \* Null, or Some(run.results when updateRunSummary was called)
    pProgress,     \* the progress state of a run whose callbacks are drawn
    pHistory,      \* the callbacks delivered to its onProgress, in order
    \* ---- calculateScenarioSummary applied to a drawn run list ----
    sRuns,         \* the run list handed to calculateScenarioSummary
    sSummary,      \* Null, or Some(the summary it returned)
    \* ---- mergeSequentialParts applied to drawn parts ----
    mPart1, mPart2, mPart3,
    mMerged        \* Null, or Some(the object it returned)

inputVars == <<config, modelIds, scenarios, usage, rejection>>
runnerVars == <<inputVars, pc, modelIdx, scenarioIdx, runNum, step,
                attempt, attempts, stepResults, runs, results, suiteResults,
                callCount, rejectedCalls, messages, lastCall, activeRun,
                cancelAccepted, emitted, tracker>>
storageVars == <<indexRuns, files, sOp>>
engineVars == <<runnerVars, storageVars>>
summaryVars == <<sRuns, sSummary>>
mergeVars == <<mPart1, mPart2, mPart3, mMerged>>
startVars == <<activeRuns, handled, lastPost>>
treeVars == <<uRun, uBefore>>
progressVars == <<pProgress, pHistory>>
pureVars == <<summaryVars, mergeVars, startVars, treeVars, progressVars>>
vars == <<engineVars, pureVars>>

-----------------------------------------------------------------------------
(* Bounds of the model.                                                    *)

\* the largest configured retry budget explored
MaxRetriesBound == 3
\* the largest runsPerScenario explored
MaxRunsBound == 2
\* the longest scenario list handed to runModelTests
MaxScenariosBound == 2
\* the model ids handed to runFullTestSuite are at most this many
MaxModelsBound == 2
\* the generator calls of an execution that reject are at most this many
MaxRejectedCalls == 1
\* ExecutionCost of the executions explored with DELETE requests
MaxCancelCostBound == 4
\* the POST requests handled are at most this many
MaxStartRequests == 2
\* the runs of a drawn results tree are at most this many
MaxTreeRuns == 3
\* the callbacks delivered to onProgress are at most this many
MaxProgressEvents == 53
\* the largest execution explored: the generator calls it may need, times the
\* number of scenarios it runs (longer scenario lists get smaller budgets)
MaxCostBound == 12
\* the attempts the runs of one scenario may make per stage:
\* runsPerScenario x (maxRetries + 1)
MaxAttemptsBound == 8
\* the drawn run lists: most runs, most attempts over all runs
MaxSummaryRuns == 2
MaxSummaryAttempts == 5

-----------------------------------------------------------------------------
(* Null and optional values.                                               *)

Null == <<>>
Some(v) == <<v>>

\* x || 0 on an optional number: undefined and 0 both give 0
LogicalOrZero(x) == IF x = Null THEN 0 ELSE IF x[1] = 0 THEN 0 ELSE x[1]

\* x ?? 0 on an optional number
NullishOrZero(x) == IF x = Null THEN 0 ELSE x[1]

Rat(n, d) == [num |-> n, den |-> d]

RatLeq(a, b) == a.num * b.den <= b.num * a.den

RatEq(a, b) == a.num * b.den = b.num * a.den

-----------------------------------------------------------------------------
(* The schemas (zod), as the list of issues schema.parse reports.          *)

MinTitleLen == 2
MinReasonLen == 20
MinPromptLen == 30
MinRecommendationLen == 20

ModelTypes == {"reasoning", "semantic"}

Issue(path, message, code) == [path |-> path, message |-> message, code |-> code]

\* z.string().min(n)
MinLengthIssues(path, s, n) ==
    IF Len(s) < n
    THEN << Issue(path,
                  "String must contain at least " \o ToString(n) \o " character(s)",
                  "too_small") >>
    ELSE << >>

\* z.enum(['reasoning', 'semantic'])
ModelTypeIssues(path, m) ==
    IF m \in ModelTypes
    THEN << >>
    ELSE << Issue(path, "Invalid enum value", "invalid_enum_value") >>

\* z.literal('create_actor')
LiteralIssues(path, v) ==
    IF v = "create_actor"
    THEN << >>
    ELSE << Issue(path, "Invalid literal value", "invalid_literal") >>

ActorSchemaIssues(path, a) ==
    MinLengthIssues(path \o <<"title">>, a.title, MinTitleLen)
    \o MinLengthIssues(path \o <<"reason">>, a.reason, MinReasonLen)
    \o MinLengthIssues(path \o <<"prompt">>, a.prompt, MinPromptLen)
    \o ModelTypeIssues(path \o <<"model">>, a.model)

ActionSchemaIssues(path, act) ==
    LiteralIssues(path \o <<"type">>, act.type)
    \o ActorSchemaIssues(path \o <<"actor">>, act.actor)

ResponseSchemaIssues(o) ==
    MinLengthIssues(<<"recommendation">>, o.recommendation, MinRecommendationLen)
    \o (IF o.action = Null THEN << >> ELSE ActionSchemaIssues(<<"action">>, o.action[1]))

SequentialPart1SchemaIssues(o) ==
    MinLengthIssues(<<"recommendation">>, o.recommendation, MinRecommendationLen)
    \o (IF o.action = Null THEN << >> ELSE LiteralIssues(<<"action">>, o.action[1]))

SequentialPart2SchemaIssues(o) ==
    MinLengthIssues(<<"title">>, o.title, MinTitleLen)
    \o MinLengthIssues(<<"reason">>, o.reason, MinReasonLen)

SequentialPart3SchemaIssues(o) ==
    MinLengthIssues(<<"prompt">>, o.prompt, MinPromptLen)
    \o ModelTypeIssues(<<"model">>, o.model)

\* the schema a scenario validates a step against
SchemaIssues(schema, o) ==
    CASE schema = "Response" -> ResponseSchemaIssues(o)
      [] schema = "Part1" -> SequentialPart1SchemaIssues(o)
      [] schema = "Part2" -> SequentialPart2SchemaIssues(o)
      [] schema = "Part3" -> SequentialPart3SchemaIssues(o)

-----------------------------------------------------------------------------
(* mergeSequentialParts.                                                   *)

mergeSequentialPartsMixed(part1, part2, part3) ==
    [recommendation |-> part1.recommendation,
     action |-> IF part1.action = Some("create_actor")
                THEN Some([type |-> "create_actor",
                           actor |-> [title |-> part2.title,
                                      reason |-> part2.title,
                                      skills |-> part2.skills,
                                      prompt |-> part3.prompt,
                                      model |-> part3.model]])
                ELSE Null]

mergeSequentialParts(part1, part2, part3) ==
    [recommendation |-> part1.recommendation,
     action |-> IF part1.action = Some("create_actor")
                THEN Some([type |-> "create_actor",
                           actor |-> [title |-> part2.title,
                                      reason |-> part2.reason,
                                      skills |-> part2.skills,
                                      prompt |-> part3.prompt,
                                      model |-> part3.model]])
                ELSE Null]

-----------------------------------------------------------------------------
(* The values a generator may hand back: objects of the right shape, some  *)
(* of which violate a constraint of their schema.                          *)

RecommendationTexts ==
    {"I think you need to hire a Database Administrator", "Short"}
TitleTexts == {"Database Administrator", "D"}
ReasonTexts == {"The team needs database performance expertise", "No reason"}
SkillLists == {<<"PostgreSQL", "Query Optimization", "Database Design">>, << >>}
PromptTexts ==
    {"You are a database expert with deep knowledge of PostgreSQL", "Be a DBA"}

Part1Objects ==
    [recommendation : RecommendationTexts, action : {Some("create_actor"), Null}]
Part2Objects == [title : TitleTexts, reason : ReasonTexts, skills : SkillLists]
Part3Objects == [prompt : PromptTexts, model : ModelTypes]

-----------------------------------------------------------------------------
(* calculateScenarioSummary (the metrics aggregator).                      *)

\* run.attempts[k]?.success, k counted from 0
AttemptSucceeded(run, k) ==
    k + 1 <= Len(run.attempts) /\ run.attempts[k + 1].success

\* runs.filter((r) => r.success).length
SuccessfulRuns(rs) == Cardinality({i \in 1..Len(rs) : rs[i].success})

\* runs.filter((r) => r.attempts[0]?.success).length
FirstAttemptSuccesses(rs) ==
    Cardinality({i \in 1..Len(rs) : AttemptSucceeded(rs[i], 0)})

\* one pass of the loop over the runs: tiers is <<afterRetry1, afterRetry2, afterRetry3>>
RetryTierStep(run, tiers) ==
    IF AttemptSucceeded(run, 0) THEN tiers
    ELSE IF AttemptSucceeded(run, 1)
         THEN <<tiers[1] + 1, tiers[2] + 1, tiers[3] + 1>>
    ELSE IF AttemptSucceeded(run, 2)
         THEN <<tiers[1], tiers[2] + 1, tiers[3] + 1>>
    ELSE IF AttemptSucceeded(run, 3)
         THEN <<tiers[1], tiers[2], tiers[3] + 1>>
    ELSE tiers

RECURSIVE RetryTierLoop(_, _, _)
RetryTierLoop(rs, i, tiers) ==
    IF i > Len(rs) THEN tiers
    ELSE RetryTierLoop(rs, i + 1, RetryTierStep(rs[i], tiers))

\* a variant of the loop that omits the `continue` of a first-attempt success
RetryTierStepDoubleCount(run, tiers) ==
    IF AttemptSucceeded(run, 1)
    THEN <<tiers[1] + 1, tiers[2] + 1, tiers[3] + 1>>
    ELSE IF AttemptSucceeded(run, 2)
         THEN <<tiers[1], tiers[2] + 1, tiers[3] + 1>>
    ELSE IF AttemptSucceeded(run, 3)
         THEN <<tiers[1], tiers[2], tiers[3] + 1>>
    ELSE tiers

RECURSIVE RetryTierLoopDoubleCount(_, _, _)
RetryTierLoopDoubleCount(rs, i, tiers) ==
    IF i > Len(rs) THEN tiers
    ELSE RetryTierLoopDoubleCount(rs, i + 1, RetryTierStepDoubleCount(rs[i], tiers))

RetryTierCountsDoubleCount(rs) ==
    LET first == FirstAttemptSuccesses(rs)
    IN  RetryTierLoopDoubleCount(rs, 1, <<first, first, first>>)

\* afterRetry1, afterRetry2, afterRetry3 once the loop has run
RetryTierCounts(rs) ==
    LET first == FirstAttemptSuccesses(rs)
    IN  RetryTierLoop(rs, 1, <<first, first, first>>)

\* runs.reduce((sum, r) => sum + r.totalDurationMs, 0)
RECURSIVE TotalDuration(_)
TotalDuration(rs) ==
    IF rs = << >> THEN 0
    ELSE TotalDuration(SubSeq(rs, 1, Len(rs) - 1)) + rs[Len(rs)].totalDurationMs

\* a variant that counts one attempt per run
TotalAttemptsOnePerRun(rs) == Len(rs)

\* runs.reduce((sum, r) => sum + r.attempts.length, 0)
RECURSIVE TotalAttempts(_)
TotalAttempts(rs) ==
    IF rs = << >> THEN 0
    ELSE TotalAttempts(SubSeq(rs, 1, Len(rs) - 1)) + Len(rs[Len(rs)].attempts)

\* r.attempts.reduce((aSum, a) => aSum + (a.inputTokens || 0) + (a.outputTokens || 0), 0)
RECURSIVE AttemptTokens(_)
AttemptTokens(as) ==
    IF as = << >> THEN 0
    ELSE AttemptTokens(SubSeq(as, 1, Len(as) - 1))
         + LogicalOrZero(as[Len(as)].inputTokens)
         + LogicalOrZero(as[Len(as)].outputTokens)

\* a variant that adds up the tokens of the successful attempts only
RECURSIVE AttemptTokensOfSuccesses(_)
AttemptTokensOfSuccesses(as) ==
    IF as = << >> THEN 0
    ELSE AttemptTokensOfSuccesses(SubSeq(as, 1, Len(as) - 1))
         + (IF as[Len(as)].success
            THEN LogicalOrZero(as[Len(as)].inputTokens)
                 + LogicalOrZero(as[Len(as)].outputTokens)
            ELSE 0)

RECURSIVE TotalTokensOfSuccesses(_)
TotalTokensOfSuccesses(rs) ==
    IF rs = << >> THEN 0
    ELSE TotalTokensOfSuccesses(SubSeq(rs, 1, Len(rs) - 1))
         + AttemptTokensOfSuccesses(rs[Len(rs)].attempts)

\* runs.reduce((sum, r) => sum + r.attempts.reduce(...), 0)
RECURSIVE TotalTokens(_)
TotalTokens(rs) ==
    IF rs = << >> THEN 0
    ELSE TotalTokens(SubSeq(rs, 1, Len(rs) - 1)) + AttemptTokens(rs[Len(rs)].attempts)

\* the summary of a run list of length totalRuns, with no test for totalRuns = 0
SummaryOfRuns(rs) ==
    LET totalRuns == Len(rs)
        tiers == RetryTierCounts(rs)
    IN  [successRate |-> Rat(SuccessfulRuns(rs) * 100, totalRuns),
         firstAttemptSuccessRate |-> Rat(FirstAttemptSuccesses(rs) * 100, totalRuns),
         afterRetry1SuccessRate |-> Rat(tiers[1] * 100, totalRuns),
         afterRetry2SuccessRate |-> Rat(tiers[2] * 100, totalRuns),
         afterRetry3SuccessRate |-> Rat(tiers[3] * 100, totalRuns),
         averageDurationMs |-> Rat(TotalDuration(rs), totalRuns),
         averageAttempts |-> Rat(TotalAttempts(rs), totalRuns),
         totalTokensUsed |-> TotalTokens(rs)]

\* the summary returned for totalRuns = 0
EmptySummary ==
    [successRate |-> Rat(0, 1),
     firstAttemptSuccessRate |-> Rat(0, 1),
     afterRetry1SuccessRate |-> Rat(0, 1),
     afterRetry2SuccessRate |-> Rat(0, 1),
     afterRetry3SuccessRate |-> Rat(0, 1),
     averageDurationMs |-> Rat(0, 1),
     averageAttempts |-> Rat(0, 1),
     totalTokensUsed |-> 0]

\* a variant without the test for totalRuns = 0
calculateScenarioSummaryUnguarded(rs) == SummaryOfRuns(rs)

calculateScenarioSummary(rs) ==
    IF Len(rs) = 0 THEN EmptySummary ELSE SummaryOfRuns(rs)


-----------------------------------------------------------------------------
(* updateRunSummary, over a results tree model id -> scenario -> result.   *)

\* the inner loop: the scenarios of one model
RECURSIVE ScenarioTotals(_, _, _)
ScenarioTotals(modelResults, keys, acc) ==
    IF keys = {} THEN acc
    ELSE LET scenario == CHOOSE k \in keys : TRUE
             scenarioResult == modelResults[scenario]
         IN  ScenarioTotals(modelResults, keys \ {scenario},
                [totalTests |-> acc.totalTests + Len(scenarioResult.runs),
                 passed |-> acc.passed
                    + Len(SelectSeq(scenarioResult.runs, LAMBDA r : r.success))])

\* the outer loop: the models of the tree
RECURSIVE ModelTotals(_, _, _)
ModelTotals(tree, keys, acc) ==
    IF keys = {} THEN acc
    ELSE LET modelId == CHOOSE k \in keys : TRUE
         IN  ModelTotals(tree, keys \ {modelId},
                ScenarioTotals(tree[modelId], DOMAIN tree[modelId], acc))

\* the summary with every run counted as passed
updateRunSummaryAllPassed(tree) ==
    LET t == ModelTotals(tree, DOMAIN tree, [totalTests |-> 0, passed |-> 0])
    IN  [totalTests |-> t.totalTests,
         passed |-> t.totalTests,
         failed |-> 0,
         successRate |-> IF t.totalTests > 0 THEN Rat(t.totalTests * 100, t.totalTests)
                         ELSE Rat(0, 1)]

\* the summary updateRunSummary writes into run.summary
updateRunSummary(tree) ==
    LET t == ModelTotals(tree, DOMAIN tree, [totalTests |-> 0, passed |-> 0])
    IN  [totalTests |-> t.totalTests,
         passed |-> t.passed,
         failed |-> t.totalTests - t.passed,
         successRate |-> IF t.totalTests > 0 THEN Rat(t.passed * 100, t.totalTests)
                         ELSE Rat(0, 1)]

\* the summary of createTestRun
createTestRunSummary ==
    [totalTests |-> 0, passed |-> 0, failed |-> 0, successRate |-> Rat(0, 1)]

-----------------------------------------------------------------------------
(* JSON.stringify of the objects above.                                    *)

JSONString(s) == "\"" \o s \o "\""

RECURSIVE JSONStringList(_)
JSONStringList(l) ==
    IF l = << >> THEN ""
    ELSE IF Len(l) = 1 THEN JSONString(l[1])
    ELSE JSONString(l[1]) \o "," \o JSONStringList(Tail(l))

JSONStringify(schema, o) ==
    CASE schema = "Part1" ->
           "{\"recommendation\":" \o JSONString(o.recommendation)
           \o ",\"action\":"
           \o (IF o.action = Null THEN "null" ELSE JSONString(o.action[1])) \o "}"
      [] schema = "Part2" ->
           "{\"title\":" \o JSONString(o.title)
           \o ",\"reason\":" \o JSONString(o.reason)
           \o ",\"skills\":[" \o JSONStringList(o.skills) \o "]}"
      [] schema = "Part3" ->
           "{\"prompt\":" \o JSONString(o.prompt)
           \o ",\"model\":" \o JSONString(o.model) \o "}"
      [] schema = "Response" ->
           "{\"recommendation\":" \o JSONString(o.recommendation)
           \o ",\"action\":"
           \o (IF o.action = Null THEN "null"
               ELSE "{\"type\":" \o JSONString(o.action[1].type)
                    \o ",\"actor\":{\"title\":" \o JSONString(o.action[1].actor.title)
                    \o ",\"reason\":" \o JSONString(o.action[1].actor.reason)
                    \o ",\"skills\":[" \o JSONStringList(o.action[1].actor.skills) \o "]"
                    \o ",\"prompt\":" \o JSONString(o.action[1].actor.prompt)
                    \o ",\"model\":" \o JSONString(o.action[1].actor.model) \o "}}")
           \o "}"

\* JSON.stringify(o, null, 2): the same text, one member per line
JSONStringifyIndented(schema, o) == "\n" \o JSONStringify(schema, o) \o "\n"

-----------------------------------------------------------------------------
(* The generator (generateText, generateObject) and one attempt.           *)

\* the objects the engine's generator hands back, per schema
ValidResponse ==
    [recommendation |-> "I think you need to hire a Database Administrator",
     action |-> Some([type |-> "create_actor",
                      actor |-> [title |-> "Database Administrator",
                                 reason |-> "The team needs database performance expertise",
                                 skills |-> <<"PostgreSQL", "Query Optimization",
                                              "Database Design">>,
                                 prompt |-> "You are a database expert with deep knowledge of PostgreSQL",
                                 model |-> "reasoning"]])]

GeneratedObjects(schema) ==
    CASE schema = "Response" ->
           {ValidResponse, [ValidResponse EXCEPT !.recommendation = "Short"]}
      [] schema = "Part1" ->
           {o \in Part1Objects :
              o.recommendation # "Short" \/ o.action # Null}
      [] schema = "Part2" ->
           {o \in Part2Objects :
              /\ o.title = "Database Administrator"
              /\ o.skills # << >>}
      [] schema = "Part3" ->
           {o \in Part3Objects : o.model = "reasoning"}

\* the errors a call may reject with: a network failure, and the provider's
\* answer to a missing or wrong API key
TransientErrorMessage == "fetch failed"
AuthErrorMessage == "Unauthorized"
RejectionMessages == {TransientErrorMessage, AuthErrorMessage}

\* what a generateText call may do: resolve with a text that is the JSON of
\* an object, resolve with a text that is no JSON, or reject
GenerateTextOutcomes(schema) ==
    {[kind |-> "json", value |-> o] : o \in GeneratedObjects(schema)}
    \cup {[kind |-> "not_json"]}
    \cup {[kind |-> "rejects", error |-> rejection]}

\* what a generateObject call may do: resolve with an object of the schema,
\* reject with a ZodError, or reject with another error
GenerateObjectOutcomes(schema) ==
    {[kind |-> "object", value |-> o] :
        o \in {g \in GeneratedObjects(schema) : SchemaIssues(schema, g) = << >>}}
    \cup {[kind |-> "zod_error", value |-> o] :
        o \in {g \in GeneratedObjects(schema) : SchemaIssues(schema, g) # << >>}}
    \cup {[kind |-> "rejects", error |-> rejection]}

\* result.usage?.inputTokens || 0, result.usage?.outputTokens || 0
UsageTokens(u) ==
    [input |-> LogicalOrZero(IF u = Null THEN Null ELSE Some(u[1].inputTokens)),
     output |-> LogicalOrZero(IF u = Null THEN Null ELSE Some(u[1].outputTokens))]

\* parseZodErrors
parseZodErrors(issues) ==
    [i \in 1..Len(issues) |->
        [path |-> issues[i].path, message |-> issues[i].message, code |-> issues[i].code]]

\* runNonStrictAttempt, once generateText has resolved
runNonStrictAttempt(outcome, schema, u) ==
    IF outcome.kind = "json"
    THEN LET raw == JSONStringify(schema, outcome.value)
             issues == SchemaIssues(schema, outcome.value)
         IN  IF issues = << >>
             THEN [success |-> TRUE, data |-> Some(outcome.value), raw |-> raw,
                   errors |-> Null, tokens |-> Some(UsageTokens(u))]
             ELSE [success |-> FALSE, data |-> Null, raw |-> raw,
                   errors |-> Some(parseZodErrors(issues)),
                   tokens |-> Some(UsageTokens(u))]
    ELSE [success |-> FALSE, data |-> Null, raw |-> "Sorry, I cannot help with that",
          errors |-> Some(<< Issue(<< >>, "Invalid JSON: Unexpected token", "invalid_json") >>),
          tokens |-> Some(UsageTokens(u))]

\* runStrictAttempt with a catch that reports no issue for an SDK error
runStrictAttemptWithoutIssue(outcome, schema, u) ==
    CASE outcome.kind = "object" ->
           [success |-> TRUE, data |-> Some(outcome.value),
            raw |-> JSONStringifyIndented(schema, outcome.value),
            errors |-> Null, tokens |-> Some(UsageTokens(u))]
      [] outcome.kind = "zod_error" ->
           [success |-> FALSE, data |-> Null, raw |-> "",
            errors |-> Some(parseZodErrors(SchemaIssues(schema, outcome.value))),
            tokens |-> Null]
      [] outcome.kind = "rejects" ->
           [success |-> FALSE, data |-> Null, raw |-> "",
            errors |-> Null, tokens |-> Null]

\* runStrictAttempt
runStrictAttempt(outcome, schema, u) ==
    CASE outcome.kind = "object" ->
           [success |-> TRUE, data |-> Some(outcome.value),
            raw |-> JSONStringifyIndented(schema, outcome.value),
            errors |-> Null, tokens |-> Some(UsageTokens(u))]
      [] outcome.kind = "zod_error" ->
           [success |-> FALSE, data |-> Null, raw |-> "",
            errors |-> Some(parseZodErrors(SchemaIssues(schema, outcome.value))),
            tokens |-> Null]
      [] outcome.kind = "rejects" ->
           [success |-> FALSE, data |-> Null, raw |-> "",
            errors |-> Some(<< Issue(<< >>, outcome.error, "api_error") >>),
            tokens |-> Null]

\* the AttemptResult a scenario loop records for a result
AttemptResult(n, result) ==
    [attemptNumber |-> n,
     success |-> result.success,
     inputTokens |-> IF result.tokens = Null THEN Null ELSE Some(result.tokens[1].input),
     outputTokens |-> IF result.tokens = Null THEN Null ELSE Some(result.tokens[1].output),
     rawResponse |-> result.raw,
     parsedResponse |-> IF result.success THEN result.data ELSE Null,
     validationErrors |-> IF result.errors = Null THEN << >> ELSE result.errors[1],
     errorMessage |-> Null]


-----------------------------------------------------------------------------
(* The prompts and the message lists handed to the generator.  The long    *)
(* constant texts are cut to their first line; getRetryPrompt is whole,    *)
(* with "* " standing for its bullet character.                            *)

systemPrompt == "You are a recruiter AI assistant."

\* formatConversation(): `${participant}: ${message}` joined by blank lines
conversationText ==
    "Casey: Maybe we need to bring in someone who specialises in this stuff?"
    \o "\n\n" \o "Alex: Yeah, I think that's the right call."

getOneShotPrompt ==
    "Based on the conversation above, recommend a team member who could help solve their problem.\n\nRespond ONLY with valid JSON like this example:"

oneShotStrictPrompt ==
    "Based on the conversation above, recommend a team member who could help solve their problem.\n\nRespond with a JSON object containing:"

\* sequentialPrompts.stepN.nonStrict / .strict
sequentialPrompts(st, strict) ==
    (CASE st = 1 -> "Based on the conversation, what type of team member should this team add?"
       [] st = 2 -> "For the role you recommended, provide their details."
       [] st = 3 -> IF strict THEN "For this role, provide the AI configuration."
                    ELSE "For this role, provide the AI system prompt and model type.")
    \o (IF strict THEN "\n\nRespond with a JSON object containing:"
        ELSE "\n\nRespond with JSON like this example:")

Message(role, content) == [role |-> role, content |-> content]

\* err.path.join('.')
RECURSIVE JoinPath(_)
JoinPath(path) ==
    IF path = << >> THEN ""
    ELSE IF Len(path) = 1 THEN path[1]
    ELSE path[1] \o "." \o JoinPath(Tail(path))

\* one line of the error list of getRetryPrompt
RetryErrorLine(err) ==
    "* " \o (IF Len(err.path) > 0 THEN JoinPath(err.path) ELSE "root")
    \o ": " \o err.message

\* validationErrors.map(...).join('\n')
RECURSIVE RetryErrorList(_)
RetryErrorList(errors) ==
    IF errors = << >> THEN ""
    ELSE IF Len(errors) = 1 THEN RetryErrorLine(errors[1])
    ELSE RetryErrorLine(errors[1]) \o "\n" \o RetryErrorList(Tail(errors))

getRetryPrompt(previousResponse, validationErrors) ==
    "<validation_retry>\nYour previous response failed JSON validation:\n\n"
    \o "<previous_response>\n" \o previousResponse \o "\n</previous_response>\n\n"
    \o "<validation_errors>\n" \o RetryErrorList(validationErrors)
    \o "\n</validation_errors>\n\n"
    \o "<instructions>\n1. Review the specific validation errors above\n"
    \o "2. Identify what needs to be fixed in your response\n"
    \o "3. Generate a corrected response that addresses each error\n</instructions>\n\n"
    \o "Provide a corrected JSON response. Return ONLY valid JSON with no additional text, explanations, or markdown formatting.\n"
    \o "</validation_retry>"

\* the two messages every list starts with
ContextMessages ==
    << Message("system", systemPrompt),
       Message("user", "Here is a conversation between team members:\n\n"
                       \o conversationText) >>

\* the messages of the first attempt of a one-shot run
OneShotMessages(scenario) ==
    Append(ContextMessages,
           Message("user", IF scenario = 1 THEN getOneShotPrompt
                           ELSE oneShotStrictPrompt))

\* stepNMessages with the results of steps 1 and 2 in the wrong order
StepMessagesSwapped(scenario, st, prior) ==
    ContextMessages
    \o (IF st >= 3 THEN << Message("assistant", JSONStringify("Part2", prior[2])) >>
        ELSE << >>)
    \o (IF st >= 2 THEN << Message("assistant", JSONStringify("Part1", prior[1])) >>
        ELSE << >>)
    \o << Message("user", sequentialPrompts(st, scenario = 4)) >>

\* stepNMessages as first built: the context, the validated results of the
\* steps before as assistant turns, the prompt of the step
StepMessages(scenario, st, prior) ==
    ContextMessages
    \o (IF st >= 2 THEN << Message("assistant", JSONStringify("Part1", prior[1])) >>
        ELSE << >>)
    \o (IF st >= 3 THEN << Message("assistant", JSONStringify("Part2", prior[2])) >>
        ELSE << >>)
    \o << Message("user", sequentialPrompts(st, scenario = 4)) >>

\* the messages of the first attempt of a run
FirstMessages(scenario) ==
    IF scenario \in {1, 2} THEN OneShotMessages(scenario)
    ELSE StepMessages(scenario, 1, << >>)

\* the retry context: the failed response as an assistant turn, then the
\* retry prompt
RetryContext(last) ==
    << Message("assistant", last.rawResponse),
       Message("user", getRetryPrompt(last.rawResponse, last.validationErrors)) >>

\* the messages of a retry when scenario 1 too appends the retry context to
\* the messages already sent
RetryMessagesAllAccumulate(scenario, sent, last) ==
    CASE scenario = 1 -> sent \o RetryContext(last)
      [] scenario = 2 -> OneShotMessages(2)
      [] scenario = 3 -> sent \o RetryContext(last)
      [] scenario = 4 -> sent

\* the messages of the attempt that follows the failed attempt `last`, `sent`
\* being the messages of that failed attempt
RetryMessages(scenario, sent, last) ==
    CASE scenario = 1 -> OneShotMessages(1) \o RetryContext(last)
      [] scenario = 2 -> OneShotMessages(2)
      [] scenario = 3 -> sent \o RetryContext(last)
      [] scenario = 4 -> sent


-----------------------------------------------------------------------------
(* The progress callbacks and the onProgress handler of                    *)
(* runTestsInBackground.  A log entry is kept as its type, run number,     *)
(* attempt number and arrival number; a write past the end of a JavaScript *)
(* array leaves holes, shown as "empty", and a write at index -1 leaves    *)
(* the array as it was.                                                    *)

\* the entries the log keeps (the 50 of the handler)
LogCap == 50

\* a TestProgress: logEntry is Null or Some(type of the log entry)
TestProgress(modelId, scenario, runNumber, attemptNumber, status, logEntry) ==
    [modelId |-> modelId, scenario |-> scenario, runNumber |-> runNumber,
     attemptNumber |-> attemptNumber, status |-> status, logEntry |-> logEntry]

\* the grid of a model and scenario before any attempt
initialRuns(runsPerScenario, maxAttempts) ==
    [i \in 1..runsPerScenario |->
        [run |-> i, attempts |-> [k \in 1..maxAttempts |-> "pending"],
         final |-> "pending"]]

\* the DetailedProgress POST stores, with lastModel and lastScenario of
\* runTestsInBackground
InitialProgress(ms, l, c) ==
    [currentModel |-> ms[1], currentScenario |-> l[1],
     currentRun |-> 1, currentAttempt |-> 1,
     runs |-> initialRuns(c.runsPerScenario, c.maxRetries + 1),
     totalRuns |-> Len(ms) * Len(l) * c.runsPerScenario,
     completedRuns |-> 0,
     maxAttempts |-> c.maxRetries + 1,
     logEntries |-> << >>,
     received |-> 0,
     lastModel |-> "", lastScenario |-> 0]

\* cells[index] = status, index counted from 0
SetCell(cells, index, status) ==
    IF index < 0 THEN cells
    ELSE IF index < Len(cells) THEN [cells EXCEPT ![index + 1] = status]
    ELSE cells \o [k \in 1..(index - Len(cells)) |-> "empty"] \o <<status>>

\* logEntries.slice(-50)
LastEntries(entries, n) ==
    IF Len(entries) > n THEN SubSeq(entries, Len(entries) - n + 1, Len(entries))
    ELSE entries

\* the log after a push that keeps the first entries instead of the last
PushLogEntryKeepsFirst(entries, entry) ==
    LET pushed == Append(entries, entry)
    IN  IF Len(pushed) > LogCap THEN SubSeq(pushed, 1, LogCap) ELSE pushed

\* the log after the push of an entry
PushLogEntry(entries, entry) ==
    LET pushed == Append(entries, entry)
    IN  IF Len(pushed) > LogCap THEN LastEntries(pushed, LogCap) ELSE pushed

\* the row of one run after a callback for it
UpdateRunData(runData, status, attemptIndex, maxAttempts) ==
    IF status = "running"
    THEN [runData EXCEPT !.attempts = SetCell(@, attemptIndex, "running")]
    ELSE IF status = "retrying"
    THEN [runData EXCEPT !.attempts =
            SetCell(IF attemptIndex > 0 THEN SetCell(@, attemptIndex - 1, "failed")
                    ELSE @,
                    attemptIndex, "running")]
    ELSE IF status = "success"
    THEN LET marked == SetCell(runData.attempts, attemptIndex, "success")
         IN  [runData EXCEPT
                !.attempts = [k \in 1..Len(marked) |->
                                IF k - 1 > attemptIndex /\ k - 1 < maxAttempts
                                THEN "skipped" ELSE marked[k]],
                !.final = "success"]
    ELSE [runData EXCEPT
            !.attempts = SetCell(@, attemptIndex, "failed"),
            !.final = IF attemptIndex = maxAttempts - 1 THEN "failed" ELSE @]

\* onProgress: the tracked state after one callback
onProgress(tracked, progress, runsPerScenario) ==
    LET maxAttempts == tracked.maxAttempts
        modelOrScenarioChanged ==
            progress.modelId # tracked.lastModel
                \/ progress.scenario # tracked.lastScenario
        reset ==
            IF modelOrScenarioChanged
            THEN [tracked EXCEPT !.lastModel = progress.modelId,
                                 !.lastScenario = progress.scenario,
                                 !.runs = initialRuns(runsPerScenario, maxAttempts),
                                 !.logEntries = << >>]
            ELSE tracked
        runIndex == progress.runNumber - 1
        attemptIndex == progress.attemptNumber - 1
        logged ==
            IF progress.logEntry # Null
            THEN PushLogEntry(reset.logEntries,
                    [type |-> progress.logEntry[1], runNumber |-> progress.runNumber,
                     attemptNumber |-> progress.attemptNumber,
                     arrival |-> tracked.received + 1])
            ELSE reset.logEntries
        inGrid == runIndex >= 0 /\ runIndex < Len(reset.runs)
        completes ==
            inGrid /\ (progress.status = "success"
                        \/ (progress.status = "failed"
                              /\ attemptIndex = maxAttempts - 1))
    IN  [reset EXCEPT
            !.currentModel = progress.modelId,
            !.currentScenario = progress.scenario,
            !.currentRun = progress.runNumber,
            !.currentAttempt = progress.attemptNumber,
            !.logEntries = logged,
            !.received = tracked.received + 1,
            !.runs = IF inGrid
                     THEN [@ EXCEPT ![runIndex + 1] =
                              UpdateRunData(@, progress.status, attemptIndex,
                                            maxAttempts)]
                     ELSE @,
            !.completedRuns = IF completes THEN @ + 1 ELSE @]

\* the tracked state after a sequence of callbacks, in order
RECURSIVE onProgressAll(_, _, _)
onProgressAll(tracked, callbacks, runsPerScenario) ==
    IF callbacks = << >> THEN tracked
    ELSE onProgressAll(onProgress(tracked, Head(callbacks), runsPerScenario),
                       Tail(callbacks), runsPerScenario)

-----------------------------------------------------------------------------
(* Storage: data/index.json and the result files of data/results.          *)
(*                                                                         *)
(* A store is [index, files]: index is the runs list of data/index.json,   *)
(* newest first, and files maps each file name of data/results to the      *)
(* TestRunFile whose JSON text the file holds.  The fields of a run are    *)
(* strings, integers, lists and records of these, which JSON.stringify     *)
(* and JSON.parse give back unchanged, so a file is kept as the record.    *)

\* timestamp.replace(/:/g, '-')
RECURSIVE replaceColons(_)
replaceColons(s) ==
    IF Len(s) = 0 THEN ""
    ELSE (IF SubSeq(s, 1, 1) = ":" THEN "-" ELSE SubSeq(s, 1, 1))
            \o replaceColons(SubSeq(s, 2, Len(s)))

\* the timestamps createTestRun gave the runs: two runs may be created in
\* the same millisecond
Timestamps == {"2025-11-26T10:30:00.000Z", "2025-11-26T10:30:00.001Z"}

\* the file name saveTestRun derives from each timestamp
Filenames == [t \in Timestamps |-> replaceColons(t) \o ".json"]

\* the file name saveTestRun gives the file of a run
filenameOf(run) == Filenames[run.timestamp]

\* runs.findIndex((r) => r.id === id): a position counted from 0, or -1
findIndex(entries, id) ==
    LET found == {k \in 1..Len(entries) : entries[k].id = id}
    IN  IF found = {} THEN -1
        ELSE (CHOOSE k \in found : \A j \in found : k <= j) - 1

\* runs.splice(position, 1), position counted from 0
splice(entries, position) ==
    SubSeq(entries, 1, position) \o SubSeq(entries, position + 2, Len(entries))

\* runs.slice(0, limit)
slice(entries, limit) ==
    LET end == IF limit < 0
               THEN (IF Len(entries) + limit < 0 THEN 0 ELSE Len(entries) + limit)
               ELSE (IF limit < Len(entries) THEN limit ELSE Len(entries))
    IN  SubSeq(entries, 1, end)

\* the index entry saveTestRun writes for a run
IndexEntry(run, filename) ==
    [id |-> run.id, timestamp |-> run.timestamp, filename |-> filename,
     summary |-> [models |-> run.config.models,
                  totalTests |-> run.summary.totalTests,
                  successRate |-> run.summary.successRate]]

\* loadIndex of a data directory that holds no index.json
EmptyStore == [index |-> << >>, files |-> << >>]

\* saveTestRun: the store after the call
saveTestRun(store, run) ==
    LET filename == filenameOf(run)
        existingIndex == findIndex(store.index, run.id)
        kept == IF existingIndex >= 0 THEN splice(store.index, existingIndex)
                ELSE store.index
    IN  [index |-> << IndexEntry(run, filename) >> \o kept,
         files |-> (filename :> run) @@ store.files]

\* loadTestRun: Null, or Some(the run the file of the entry holds)
loadTestRun(store, id) ==
    LET at == findIndex(store.index, id)
    IN  IF at = -1 THEN Null
        ELSE IF store.index[at + 1].filename \notin DOMAIN store.files THEN Null
        ELSE Some(store.files[store.index[at + 1].filename])

\* listRecentRuns(limit)
listRecentRuns(store, limit) == slice(store.index, limit)

\* deleteTestRun when it removes the newest entry and its file instead of the
\* entry it found
deleteTestRunRemovesNewest(store, id) ==
    LET entryIndex == findIndex(store.index, id)
    IN  IF entryIndex = -1 THEN [returned |-> FALSE, store |-> store]
        ELSE LET filename == store.index[1].filename
             IN  [returned |-> TRUE,
                  store |-> [index |-> splice(store.index, 0),
                             files |-> [f \in DOMAIN store.files \ {filename} |->
                                           store.files[f]]]]

\* deleteTestRun: what it returns and the store after the call
deleteTestRun(store, id) ==
    LET entryIndex == findIndex(store.index, id)
    IN  IF entryIndex = -1 THEN [returned |-> FALSE, store |-> store]
        ELSE LET filename == store.index[entryIndex + 1].filename
             IN  [returned |-> TRUE,
                  store |-> [index |-> splice(store.index, entryIndex),
                             files |-> [f \in DOMAIN store.files \ {filename} |->
                                           store.files[f]]]]

\* the TestRunFile of the run of the engine: createTestRun gave it its id
\* and timestamp, runTestsInBackground its results and summary
EngineRunId == "run-1"

EngineTimestamp == "2025-11-26T10:30:00.000Z"

TestRunFileOf(active) ==
    [id |-> EngineRunId, timestamp |-> EngineTimestamp,
     config |-> [models |-> modelIds, scenarios |-> scenarios,
                 runsPerScenario |-> config.runsPerScenario,
                 maxRetries |-> config.maxRetries],
     summary |-> active.summary, results |-> active.results]

-----------------------------------------------------------------------------
(* The scenario loops and runModelTests.                                   *)
(*                                                                         *)
(* The engine suspends only at a generator call, so a state of the model   *)
(* is the engine waiting for one call, and an action is the call coming    *)
(* back together with everything the engine does up to the next call.      *)
(* Date.now() is a logical clock that advances by one per generator call.  *)

ScenarioIds == 1..4

\* the steps of a run: three sequential requests in scenarios 3 and 4
Stages(scenario) == IF scenario \in {3, 4} THEN 3 ELSE 1

\* the schema a step of a scenario is validated against
StepSchema(scenario, st) ==
    IF scenario \in {1, 2} THEN "Response"
    ELSE CASE st = 1 -> "Part1" [] st = 2 -> "Part2" [] st = 3 -> "Part3"

\* for (attempt = 1; attempt <= maxRetries + 1; attempt++) { ... if (success) break; }
\* with the loop test missing its bound by one
RetryLoopContinuesOffByOne(success, n, maxRetries) ==
    ~success /\ n + 1 <= maxRetries + 2

\* with the break on success missing
RetryLoopContinuesNoBreak(success, n, maxRetries) ==
    n + 1 <= maxRetries + 1

\* whether the loop goes on to attempt n + 1 after attempt n
RetryLoopContinues(success, n, maxRetries) ==
    ~success /\ n + 1 <= maxRetries + 1

\* the RunResult pushed for the run in progress
RunResult(success, recorded, finalResponse, calls) ==
    [runNumber |-> runNum,
     success |-> success,
     attempts |-> recorded,
     totalDurationMs |-> calls,
     finalResponse |-> finalResponse]

\* results[scenario.toString()] = {runs, summary}, the summary of another list
ScenarioResultOfStaleSummary(rs) ==
    [runs |-> rs, summary |-> calculateScenarioSummary(SubSeq(rs, 1, Len(rs) - 1))]

\* results[scenario.toString()] = {runs, summary: calculateScenarioSummary(runs)}
ScenarioResultOf(rs) ==
    [runs |-> rs, summary |-> calculateScenarioSummary(rs)]

\* the engine moves on to the next attempt of the same step
NextAttempt(recorded) ==
    /\ attempts' = recorded
    /\ attempt' = attempt + 1
    /\ messages' = RetryMessages(scenarios[scenarioIdx], messages,
                                 recorded[Len(recorded)])
    /\ UNCHANGED <<pc, modelIdx, scenarioIdx, runNum, step, stepResults, runs,
                   results, suiteResults, activeRun>>

\* the engine moves on to the first attempt of the next step
NextStep(recorded, data) ==
    /\ attempts' = recorded
    /\ attempt' = 1
    /\ step' = step + 1
    /\ stepResults' = Append(stepResults, data)
    /\ messages' = StepMessages(scenarios[scenarioIdx], step + 1,
                                Append(stepResults, data))
    /\ UNCHANGED <<pc, modelIdx, scenarioIdx, runNum, runs, results, suiteResults,
                   activeRun>>

\* the scenario function returns its runs: runModelTests stores the result
\* and enters the next scenario, or returns
FinishScenario(allRuns) ==
    LET scenario == scenarios[scenarioIdx]
        stored == [s \in DOMAIN results \cup {scenario} |->
                      IF s = scenario THEN ScenarioResultOf(allRuns) ELSE results[s]]
        \* results[modelId] = await runModelTests(...)
        suite == [m \in DOMAIN suiteResults \cup {modelIds[modelIdx]} |->
                     IF m = modelIds[modelIdx] THEN stored ELSE suiteResults[m]]
    IN  /\ runs' = << >>
        /\ runNum' = 1
        /\ step' = 1
        /\ attempt' = 1
        /\ attempts' = << >>
        /\ stepResults' = << >>
        /\ IF scenarioIdx < Len(scenarios)
           THEN /\ results' = stored
                /\ scenarioIdx' = scenarioIdx + 1
                /\ pc' = "awaiting"
                /\ messages' = FirstMessages(scenarios[scenarioIdx + 1])
                /\ UNCHANGED <<modelIdx, suiteResults, activeRun>>
           ELSE IF modelIdx < Len(modelIds)
           \* runModelTests returns: runFullTestSuite calls it for the next model
           THEN /\ suiteResults' = suite
                /\ results' = << >>
                /\ modelIdx' = modelIdx + 1
                /\ scenarioIdx' = 1
                /\ pc' = "awaiting"
                /\ messages' = FirstMessages(scenarios[1])
                /\ UNCHANGED activeRun
           \* runFullTestSuite returns: runTestsInBackground stores the results
           \* and the summary of the run
           ELSE /\ suiteResults' = suite
                /\ results' = stored
                /\ UNCHANGED <<modelIdx, scenarioIdx>>
                /\ pc' = "returned"
                /\ messages' = << >>
                /\ activeRun' = [activeRun EXCEPT !.status = "complete",
                                                  !.results = suite,
                                                  !.summary = updateRunSummary(suite)]

\* runs.push(run), then the run after the next one
FinishRunSkipsARun(run) ==
    IF runNum + 1 <= config.runsPerScenario
    THEN /\ runs' = Append(runs, run)
         /\ runNum' = runNum + 2
         /\ step' = 1
         /\ attempt' = 1
         /\ attempts' = << >>
         /\ stepResults' = << >>
         /\ messages' = FirstMessages(scenarios[scenarioIdx])
         /\ UNCHANGED <<pc, modelIdx, scenarioIdx, results, suiteResults, activeRun>>
    ELSE FinishScenario(Append(runs, run))

\* runs.push(run), then the next run of the scenario or the end of the scenario
FinishRun(run) ==
    IF runNum + 1 <= config.runsPerScenario
    THEN /\ runs' = Append(runs, run)
         /\ runNum' = runNum + 1
         /\ step' = 1
         /\ attempt' = 1
         /\ attempts' = << >>
         /\ stepResults' = << >>
         /\ messages' = FirstMessages(scenarios[scenarioIdx])
         /\ UNCHANGED <<pc, modelIdx, scenarioIdx, results, suiteResults, activeRun>>
    ELSE FinishScenario(Append(runs, run))

\* a rejection no try block catches leaves the scenario function,
\* runModelTests and runFullTestSuite, and lands in the catch of
\* runTestsInBackground
Propagate(error) ==
    /\ pc' = "threw"
    /\ activeRun' = [activeRun EXCEPT !.status = "error", !.error = Some(error)]
    /\ UNCHANGED <<modelIdx, scenarioIdx, runNum, step, attempt, attempts,
                   stepResults, runs, results, suiteResults, messages>>

\* one pass of the attempt loop of a one-shot scenario, given the result
OneShotAttempt(result) ==
    LET recorded == Append(attempts, AttemptResult(attempt, result))
    IN  IF RetryLoopContinues(result.success, attempt, config.maxRetries)
        THEN NextAttempt(recorded)
        ELSE FinishRun(RunResult(result.success, recorded,
                                 IF result.success THEN result.data ELSE Null,
                                 Len(recorded)))

\* the end of the try block of a sequential run: merge, validate, succeed;
\* a failed validation throws into the catch, which leaves the run failed
MergeAndFinish(recorded, parts) ==
    LET merged == mergeSequentialParts(parts[1], parts[2], parts[3])
    IN  IF ResponseSchemaIssues(merged) = << >>
        THEN FinishRun(RunResult(TRUE, recorded, Some(merged), Len(recorded)))
        ELSE FinishRun(RunResult(FALSE, recorded, Null, Len(recorded)))

\* one pass of the attempt loop of a step, without the throw that ends the
\* run when the step has used its attempts: the next step is entered
SequentialAttemptGoesOn(result) ==
    LET recorded == Append(attempts, AttemptResult(attempt, result))
        schema == StepSchema(scenarios[scenarioIdx], step)
        filler == CHOOSE o \in GeneratedObjects(schema) : SchemaIssues(schema, o) = << >>
    IN  IF result.success
        THEN IF step < 3
             THEN NextStep(recorded, result.data[1])
             ELSE MergeAndFinish(recorded, Append(stepResults, result.data[1]))
        ELSE IF RetryLoopContinues(result.success, attempt, config.maxRetries)
             THEN NextAttempt(recorded)
             ELSE IF step < 3
                  THEN NextStep(recorded, filler)
                  ELSE FinishRun(RunResult(FALSE, recorded, Null, Len(recorded)))

\* one pass of the attempt loop of a step, with no try block around the run:
\* the throw of a step that has used its attempts leaves the scenario function
SequentialAttemptUncaught(result) ==
    LET recorded == Append(attempts, AttemptResult(attempt, result))
    IN  IF result.success
        THEN IF step < 3
             THEN NextStep(recorded, result.data[1])
             ELSE MergeAndFinish(recorded, Append(stepResults, result.data[1]))
        ELSE IF RetryLoopContinues(result.success, attempt, config.maxRetries)
             THEN NextAttempt(recorded)
             ELSE Propagate("Step failed")

\* one pass of the attempt loop of a step of a sequential scenario
SequentialAttempt(result) ==
    LET recorded == Append(attempts, AttemptResult(attempt, result))
    IN  IF result.success
        THEN IF step < 3
             THEN NextStep(recorded, result.data[1])
             ELSE MergeAndFinish(recorded, Append(stepResults, result.data[1]))
        ELSE IF RetryLoopContinues(result.success, attempt, config.maxRetries)
             THEN NextAttempt(recorded)
             \* if (!stepNResult) throw new Error('Step N failed'), caught
             ELSE FinishRun(RunResult(FALSE, recorded, Null, Len(recorded)))

\* the generator call that just came back: where it was made, how it ended
\* and the attempt the engine recorded for it (Null when it recorded none)
CallOf(outcome, recorded) ==
    Some([modelId |-> modelIds[modelIdx],
          scenario |-> scenarios[scenarioIdx],
          runNumber |-> runNum,
          step |-> step,
          attemptNumber |-> attempt,
          kind |-> outcome.kind,
          error |-> IF outcome.kind = "rejects" THEN Some(outcome.error) ELSE Null,
          attempt |-> recorded])

\* a run of the current scenario begins in this step
RunBegins ==
    pc = "start" \/ runNum' # runNum \/ scenarioIdx' # scenarioIdx
        \/ modelIdx' # modelIdx

\* a run of the current scenario ends in this step
RunEnds ==
    pc = "awaiting"
        /\ (pc' = "returned" \/ runNum' # runNum \/ scenarioIdx' # scenarioIdx
              \/ modelIdx' # modelIdx)

\* the RunResult pushed in this step
EndedRun ==
    IF pc' = "awaiting" /\ scenarioIdx' = scenarioIdx /\ modelIdx' = modelIdx
    THEN runs'[Len(runs')]
    ELSE LET stored == IF pc' = "returned" \/ modelIdx' # modelIdx
                       THEN suiteResults'[modelIds[modelIdx]]
                       ELSE results'
             pushed == stored[scenarios[scenarioIdx]].runs
         IN  pushed[Len(pushed)]

\* the callback a one-shot scenario makes when a call has come back
AfterOneShotAttempt(result) ==
    << TestProgress(modelIds[modelIdx], scenarios[scenarioIdx], runNum, attempt,
                    IF result.success THEN "success" ELSE "failed",
                    Some("response")) >>

\* the callback a sequential scenario makes: none for an attempt, one when
\* the run ends, with attempts.length as the attempt number
AfterSequentialAttempt ==
    IF RunEnds
    THEN << TestProgress(modelIds[modelIdx], scenarios[scenarioIdx], runNum,
                         Len(EndedRun.attempts),
                         IF EndedRun.success THEN "success" ELSE "failed",
                         Null) >>
    ELSE << >>

\* the callback made before the generator call the engine is about to make:
\* one per attempt in a one-shot scenario, one per run in a sequential one
BeforeNextCall ==
    IF pc' # "awaiting" THEN << >>
    ELSE LET modelId == modelIds[modelIdx']
             scenario == scenarios[scenarioIdx']
         IN  IF Stages(scenario) = 1
             THEN << TestProgress(modelId, scenario, runNum', attempt',
                                  IF attempt' = 1 THEN "running" ELSE "retrying",
                                  Some("request")) >>
             ELSE IF RunBegins
             THEN << TestProgress(modelId, scenario, runNum', 1, "running", Null) >>
             ELSE << >>

\* the callbacks of a step reach onProgress in order; the step ends at the
\* next generator call
Report(afterCall) ==
    /\ emitted' = afterCall \o BeforeNextCall
    /\ tracker' = onProgressAll(tracker, emitted', config.runsPerScenario)
    /\ callCount' = IF pc' = "awaiting" THEN callCount + 1 ELSE callCount

\* runTestsInBackground when runFullTestSuite has returned: the run, with its
\* results and summary, is saved to storage
SaveResults ==
    IF pc' = "returned"
    THEN LET saved == saveTestRun([index |-> indexRuns, files |-> files],
                                  TestRunFileOf(activeRun'))
         IN  /\ indexRuns' = saved.index
             /\ files' = saved.files
             /\ UNCHANGED sOp
    ELSE UNCHANGED storageVars

\* the generator rejects at most MaxRejectedCalls calls of an execution
CountRejection(outcome) ==
    IF outcome.kind = "rejects"
    THEN rejectedCalls < MaxRejectedCalls /\ rejectedCalls' = rejectedCalls + 1
    ELSE UNCHANGED rejectedCalls

\* DELETE /api/run/[id] for the run: accepted while its status is 'running'
DeleteRun ==
    /\ activeRun.status = "running"
    /\ activeRun' = [activeRun EXCEPT !.status = "cancelled"]
    /\ cancelAccepted' = Some(callCount)
    /\ UNCHANGED <<inputVars, pc, modelIdx, scenarioIdx, runNum, step, attempt,
                   attempts, stepResults, runs, results, suiteResults, callCount,
                   rejectedCalls, messages, lastCall, emitted, tracker>>
    /\ UNCHANGED <<pureVars, storageVars>>

\* runModelTests is called: the first generator call of the first scenario
StartModelTests ==
    /\ pc = "start"
    /\ pc' = "awaiting"
    /\ messages' = FirstMessages(scenarios[1])
    /\ UNCHANGED <<inputVars, modelIdx, scenarioIdx, runNum, step, attempt,
                   attempts, stepResults, runs, results, suiteResults, lastCall,
                   activeRun, cancelAccepted, rejectedCalls>>
    /\ Report(<< >>)
    /\ UNCHANGED <<pureVars, storageVars>>

\* runScenario1: a generateText call comes back
Scenario1Attempt ==
    /\ pc = "awaiting"
    /\ scenarios[scenarioIdx] = 1
    /\ \E outcome \in GenerateTextOutcomes("Response") :
          /\ CountRejection(outcome)
          /\ IF outcome.kind = "rejects"
             THEN /\ Propagate(outcome.error)
                  /\ lastCall' = CallOf(outcome, Null)
                  /\ Report(<< >>)
             ELSE LET result == runNonStrictAttempt(outcome, "Response", usage)
                  IN  /\ OneShotAttempt(result)
                      /\ lastCall' = CallOf(outcome, Some(AttemptResult(attempt, result)))
                      /\ Report(AfterOneShotAttempt(result))
    /\ UNCHANGED <<inputVars, cancelAccepted, pureVars>>
    /\ SaveResults

\* runScenario2: a generateObject call comes back
Scenario2Attempt ==
    /\ pc = "awaiting"
    /\ scenarios[scenarioIdx] = 2
    /\ \E outcome \in GenerateObjectOutcomes("Response") :
          LET result == runStrictAttempt(outcome, "Response", usage)
          IN  /\ CountRejection(outcome)
              /\ OneShotAttempt(result)
              /\ lastCall' = CallOf(outcome, Some(AttemptResult(attempt, result)))
              /\ Report(AfterOneShotAttempt(result))
    /\ UNCHANGED <<inputVars, cancelAccepted, pureVars>>
    /\ SaveResults

\* runScenario3: a generateText call of a step comes back
Scenario3Attempt ==
    /\ pc = "awaiting"
    /\ scenarios[scenarioIdx] = 3
    /\ \E outcome \in GenerateTextOutcomes(StepSchema(3, step)) :
          /\ CountRejection(outcome)
          /\ IF outcome.kind = "rejects"
             \* caught by the run's catch: the run is pushed as it stands
             THEN /\ FinishRun(RunResult(FALSE, attempts, Null, Len(attempts) + 1))
                  /\ lastCall' = CallOf(outcome, Null)
                  /\ Report(AfterSequentialAttempt)
             ELSE LET result == runNonStrictAttempt(outcome, StepSchema(3, step), usage)
                  IN  /\ SequentialAttempt(result)
                      /\ lastCall' = CallOf(outcome, Some(AttemptResult(attempt, result)))
                      /\ Report(AfterSequentialAttempt)
    /\ UNCHANGED <<inputVars, cancelAccepted, pureVars>>
    /\ SaveResults

\* runScenario4: a generateObject call of a step comes back
Scenario4Attempt ==
    /\ pc = "awaiting"
    /\ scenarios[scenarioIdx] = 4
    /\ \E outcome \in GenerateObjectOutcomes(StepSchema(4, step)) :
          LET result == runStrictAttempt(outcome, StepSchema(4, step), usage)
          IN  /\ CountRejection(outcome)
              /\ SequentialAttempt(result)
              /\ lastCall' = CallOf(outcome, Some(AttemptResult(attempt, result)))
              /\ Report(AfterSequentialAttempt)
    /\ UNCHANGED <<inputVars, cancelAccepted, pureVars>>
    /\ SaveResults

-----------------------------------------------------------------------------
(* The executions explored.                                                *)

\* the scenario lists: distinct ids, at most MaxScenariosBound of them
RECURSIVE ScenarioListsOfLen(_)
ScenarioListsOfLen(n) ==
    IF n = 0 THEN {<< >>}
    ELSE {Append(l, s) : l \in ScenarioListsOfLen(n - 1), s \in ScenarioIds}

HasNoRepeat(l) == \A i, j \in 1..Len(l) : i # j => l[i] # l[j]

ScenarioLists ==
    {l \in UNION {ScenarioListsOfLen(n) : n \in 1..MaxScenariosBound} : HasNoRepeat(l)}

\* the generator calls an execution needs at most
RECURSIVE CallsNeeded(_, _)
CallsNeeded(l, c) ==
    IF l = << >> THEN 0
    ELSE Stages(Head(l)) * (c.maxRetries + 1) * c.runsPerScenario
         + CallsNeeded(Tail(l), c)

ExecutionCost(l, c) == Len(l) * CallsNeeded(l, c)

\* the model ids of src/lib/models.ts, in the order of `models`
models ==
    << "openai-gpt5", "openai-gpt4o", "anthropic-sonnet", "anthropic-opus",
       "google-flash", "google-pro" >>

\* the model lists: the first models of the configured list
ModelIdLists == {SubSeq(models, 1, n) : n \in 1..MaxModelsBound}

SuiteCost(ms, l, c) == Len(ms) * Len(ms) * ExecutionCost(l, c)

Configs ==
    {c \in [maxRetries : 0..MaxRetriesBound, runsPerScenario : 1..MaxRunsBound] :
        c.runsPerScenario * (c.maxRetries + 1) <= MaxAttemptsBound}

UsageReports == {Null, Some([inputTokens |-> 120, outputTokens |-> 60])}

SummaryUnused == sRuns = << >> /\ sSummary = Null

MergeUnused == mPart1 = Null /\ mPart2 = Null /\ mPart3 = Null /\ mMerged = Null

StartUnused == activeRuns = << >> /\ handled = 0 /\ lastPost = Null

TreeUnused == uRun = Null /\ uBefore = Null

ProgressUnused == pProgress = Null /\ pHistory = << >>

StorageUnused == indexRuns = << >> /\ files = << >> /\ sOp = Null

EngineUnused ==
    /\ config = Null /\ modelIds = << >> /\ scenarios = << >> /\ usage = Null
    /\ rejection = Null
    /\ pc = "unused"
    /\ modelIdx = 0 /\ suiteResults = << >> /\ callCount = 0
    /\ rejectedCalls = 0
    /\ cancelAccepted = Null
    /\ emitted = << >> /\ tracker = Null
    /\ scenarioIdx = 0 /\ runNum = 0 /\ step = 0 /\ attempt = 0
    /\ attempts = << >> /\ stepResults = << >> /\ runs = << >>
    /\ results = << >>
    /\ messages = << >> /\ lastCall = Null /\ activeRun = Null

\* the providers explored: whether usage is reported and the error of a
\* rejection; the provider without usage reports rejects with the transient
\* error
Providers ==
    {p \in [usage : UsageReports, rejection : RejectionMessages] :
        p.usage = Null => p.rejection = TransientErrorMessage}

\* the engine as POST and runTestsInBackground start it
EngineStarts ==
    /\ pc = "start"
    /\ modelIdx = 1
    /\ suiteResults = << >>
    /\ callCount = 0
    /\ rejectedCalls = 0
    /\ cancelAccepted = Null
    /\ emitted = << >>
    /\ tracker = InitialProgress(modelIds, scenarios, config)
    /\ scenarioIdx = 1
    /\ runNum = 1
    /\ step = 1
    /\ attempt = 1
    /\ attempts = << >>
    /\ stepResults = << >>
    /\ runs = << >>
    /\ results = << >>
    /\ messages = << >>
    /\ lastCall = Null
    \* activeRuns.set(run.id, {status: 'running', ..., run: createTestRun(...)})
    /\ activeRun = [status |-> "running", results |-> << >>,
                    summary |-> createTestRunSummary, error |-> Null]

Init ==
    /\ config \in Configs
    /\ modelIds \in ModelIdLists
    /\ scenarios \in ScenarioLists
    /\ SuiteCost(modelIds, scenarios, config) <= MaxCostBound
    /\ \E p \in Providers : usage = p.usage /\ rejection = p.rejection
    /\ EngineStarts
    /\ StorageUnused
    /\ SummaryUnused
    /\ MergeUnused
    /\ StartUnused
    /\ TreeUnused
    /\ ProgressUnused

Next ==
    \/ StartModelTests
    \/ Scenario1Attempt
    \/ Scenario2Attempt
    \/ Scenario3Attempt
    \/ Scenario4Attempt

Spec == Init /\ [][Next]_vars

-----------------------------------------------------------------------------
(* The engine with DELETE requests for the run.                            *)

InitCancel ==
    /\ config \in Configs
    /\ modelIds \in ModelIdLists
    /\ scenarios \in ScenarioLists
    /\ SuiteCost(modelIds, scenarios, config) <= MaxCancelCostBound
    /\ \E p \in Providers : usage = p.usage /\ rejection = p.rejection
    /\ EngineStarts
    /\ StorageUnused
    /\ SummaryUnused
    /\ MergeUnused
    /\ StartUnused
    /\ TreeUnused
    /\ ProgressUnused

NextCancel ==
    \/ Next
    \/ DeleteRun

SpecCancel == InitCancel /\ [][NextCancel]_vars

-----------------------------------------------------------------------------
(* Storage under drawn calls: runs are saved, deleted, loaded and listed.  *)

\* the storage calls of an execution
MaxStorageCalls == 5

\* the largest limit a list request asks for
MaxLimit == 4

RunIds == {"run-1", "run-2", "run-3"}

\* a run as saveTestRun receives it
TestRunFile(id, timestamp) ==
    [id |-> id, timestamp |-> timestamp,
     config |-> [models |-> << "openai-gpt5" >>, scenarios |-> << 1 >>,
                 runsPerScenario |-> 1, maxRetries |-> 0],
     summary |-> createTestRunSummary, results |-> << >>]

TestRunFiles == {TestRunFile(id, t) : id \in RunIds, t \in Timestamps}

\* the limits of the list requests: parseInt of the query parameter
Limits == (-2)..MaxLimit

Store == [index |-> indexRuns, files |-> files]

StorageCalls == IF sOp = Null THEN 0 ELSE sOp[1].calls

\* the record of a storage call: its name, its argument, what it returned
\* and the store before it
StorageCall(op, arg, returned) ==
    Some([op |-> op, arg |-> arg, returned |-> returned, before |-> Store,
          calls |-> StorageCalls + 1])

InitStorage ==
    /\ indexRuns = EmptyStore.index
    /\ files = EmptyStore.files
    /\ sOp = Null
    /\ EngineUnused
    /\ SummaryUnused
    /\ MergeUnused
    /\ StartUnused
    /\ TreeUnused
    /\ ProgressUnused

\* saveTestRun(run) is called
CallSaveTestRun ==
    /\ StorageCalls < MaxStorageCalls
    /\ \E run \in TestRunFiles :
          LET saved == saveTestRun(Store, run)
          IN  /\ indexRuns' = saved.index
              /\ files' = saved.files
              /\ sOp' = StorageCall("save", run, Null)
    /\ UNCHANGED <<runnerVars, pureVars>>

\* DELETE /api/results/[id]
ResultsDELETE ==
    /\ StorageCalls < MaxStorageCalls
    /\ \E id \in RunIds :
          LET deleted == deleteTestRun(Store, id)
          IN  /\ indexRuns' = deleted.store.index
              /\ files' = deleted.store.files
              /\ sOp' = StorageCall("delete", id,
                    [deleted |-> deleted.returned,
                     response |-> IF ~deleted.returned
                                  THEN [status |-> 404, error |-> "Result not found"]
                                  ELSE [status |-> 200, success |-> TRUE]])
    /\ UNCHANGED <<runnerVars, pureVars>>

\* GET /api/results/[id]
ResultsGET ==
    /\ StorageCalls < MaxStorageCalls
    /\ \E id \in RunIds :
          sOp' = StorageCall("load", id, loadTestRun(Store, id))
    /\ UNCHANGED <<indexRuns, files, runnerVars, pureVars>>

\* GET /api/results?limit=...
ResultsListGET ==
    /\ StorageCalls < MaxStorageCalls
    /\ \E limit \in Limits :
          sOp' = StorageCall("list", limit, listRecentRuns(Store, limit))
    /\ UNCHANGED <<indexRuns, files, runnerVars, pureVars>>

NextStorage ==
    \/ CallSaveTestRun
    \/ ResultsDELETE
    \/ ResultsGET
    \/ ResultsListGET

SpecStorage == InitStorage /\ [][NextStorage]_vars


-----------------------------------------------------------------------------
(* POST /api/run and the activeRuns map.  A run id is a fresh uuid, here   *)
(* the number of the request; the run a request starts goes on in the      *)
(* background and ends 'complete' or 'error' at some later time.           *)

\* the defaults of the destructured request body
DefaultScenarios == << 1, 2, 3, 4 >>
DefaultRunsPerScenario == 10
DefaultMaxRetries == 3

\* a destructuring default: it replaces an absent field
OrDefault(x, default) == IF x = Null THEN default ELSE x[1]

\* modelIds.filter(id => models.some(m => m.id === id))
validModelIdsOf(ids) ==
    SelectSeq(ids, LAMBDA id : \E i \in 1..Len(models) : models[i] = id)

\* the scenarios of the body, taken as they are
validScenariosUnfiltered(l) == l

\* scenarios.filter(s => s >= 1 && s <= 4)
validScenariosOf(l) == SelectSeq(l, LAMBDA scenario : scenario >= 1 /\ scenario <= 4)

\* what POST does with a request body when createTestRun gives the id runId:
\* its response, the entry it sets in activeRuns and the arguments of its
\* call of runTestsInBackground (Null when it makes none)
POST(body, runId) ==
    IF body.kind # "json"
    \* request.json() throws: the catch of the handler
    THEN [response |-> [status |-> 500, error |-> "Failed to start test run"],
          entry |-> Null, started |-> Null]
    ELSE LET validModelIds == validModelIdsOf(OrDefault(body.models, models))
             validScenarios == validScenariosOf(OrDefault(body.scenarios, DefaultScenarios))
             runConfig ==
                 [runsPerScenario |-> OrDefault(body.runsPerScenario, DefaultRunsPerScenario),
                  maxRetries |-> OrDefault(body.maxRetries, DefaultMaxRetries)]
         IN  IF validModelIds = << >>
             THEN [response |-> [status |-> 400, error |-> "No valid models specified"],
                   entry |-> Null, started |-> Null]
             ELSE IF validScenarios = << >>
             THEN [response |-> [status |-> 400, error |-> "No valid scenarios specified"],
                   entry |-> Null, started |-> Null]
             ELSE [response |-> [status |-> 200, runId |-> runId],
                   entry |-> Some(
                      [status |-> "running",
                       progress |-> InitialProgress(validModelIds, validScenarios, runConfig),
                       run |-> [id |-> runId,
                                config |-> [models |-> validModelIds,
                                            scenarios |-> validScenarios,
                                            runsPerScenario |-> runConfig.runsPerScenario,
                                            maxRetries |-> runConfig.maxRetries],
                                summary |-> createTestRunSummary,
                                results |-> << >>]]),
                   started |-> Some([runId |-> runId, modelIds |-> validModelIds,
                                     scenarios |-> validScenarios, config |-> runConfig])]

\* the request bodies explored
RequestBody(ms, l, n, r) ==
    [kind |-> "json", models |-> ms, scenarios |-> l, runsPerScenario |-> n,
     maxRetries |-> r]

ModelBodies ==
    {Null, Some(<< >>), Some(<<"unknown-model">>),
     Some(<<"unknown-model", "openai-gpt5">>)}

ScenarioBodies == {Null, Some(<< >>), Some(<<0, 5>>), Some(<<0, 1, 4, 5>>)}

RequestBodies ==
    {RequestBody(ms, l, Null, Null) : ms \in ModelBodies, l \in ScenarioBodies}
    \cup {RequestBody(Some(<<"google-pro", "openai-gpt5">>), Some(<<3, 2>>),
                      Some(2), Some(1))}
    \cup {[kind |-> "malformed"]}

InitStart ==
    /\ activeRuns = << >>
    /\ handled = 0
    /\ lastPost = Null
    /\ EngineUnused
    /\ StorageUnused
    /\ SummaryUnused
    /\ MergeUnused
    /\ TreeUnused
    /\ ProgressUnused

\* a POST request is handled
PostRun ==
    /\ handled < MaxStartRequests
    /\ \E body \in RequestBodies :
          LET runId == handled + 1
              done == POST(body, runId)
          IN  /\ activeRuns' =
                    IF done.entry = Null THEN activeRuns
                    ELSE [id \in DOMAIN activeRuns \cup {runId} |->
                            IF id = runId THEN done.entry[1] ELSE activeRuns[id]]
              /\ lastPost' = Some([body |-> body, response |-> done.response,
                                   started |-> done.started])
    /\ handled' = handled + 1
    /\ UNCHANGED <<engineVars, summaryVars, mergeVars, treeVars, progressVars>>

\* DELETE /api/run/[id] for a run of the map with status 'running'
DeleteActiveRun ==
    /\ \E id \in DOMAIN activeRuns :
          /\ activeRuns[id].status = "running"
          /\ activeRuns' = [activeRuns EXCEPT ![id].status = "cancelled"]
    /\ UNCHANGED <<handled, lastPost>>
    /\ UNCHANGED <<engineVars, summaryVars, mergeVars, treeVars, progressVars>>

\* runFullTestSuite of a run comes to its end in runTestsInBackground
BackgroundRunEnds ==
    /\ \E id \in DOMAIN activeRuns, status \in {"complete", "error"} :
          /\ activeRuns[id].status \in {"running", "cancelled"}
          /\ activeRuns' = [activeRuns EXCEPT ![id].status = status]
    /\ UNCHANGED <<handled, lastPost>>
    /\ UNCHANGED <<engineVars, summaryVars, mergeVars, treeVars, progressVars>>

NextStart ==
    \/ PostRun
    \/ DeleteActiveRun
    \/ BackgroundRunEnds

SpecStart == InitStart /\ [][NextStart]_vars

-----------------------------------------------------------------------------
(* updateRunSummary on drawn results trees.                                *)

TreeModelIds == {"openai-gpt5", "google-pro"}

TreeScenarios == {1, 2}

\* the runs of a results tree
TreeRunCount(tree) ==
    ModelTotals(tree, DOMAIN tree, [totalTests |-> 0, passed |-> 0]).totalTests

InitTree ==
    /\ uRun = Some([results |-> << >>, summary |-> createTestRunSummary])
    /\ uBefore = Null
    /\ EngineUnused
    /\ StorageUnused
    /\ SummaryUnused
    /\ MergeUnused
    /\ StartUnused
    /\ ProgressUnused

\* results[modelId] = {} for one more model
DrawModel ==
    /\ \E modelId \in TreeModelIds \ DOMAIN uRun[1].results :
          uRun' = Some([uRun[1] EXCEPT !.results =
                          [m \in DOMAIN @ \cup {modelId} |->
                              IF m = modelId THEN << >> ELSE @[m]]])
    /\ uBefore' = Null
    /\ UNCHANGED <<engineVars, summaryVars, mergeVars, startVars, progressVars>>

\* results[modelId][scenario] = {runs: []} for one more scenario of a model
DrawScenario ==
    /\ \E modelId \in DOMAIN uRun[1].results :
          \E scenario \in TreeScenarios \ DOMAIN uRun[1].results[modelId] :
             uRun' = Some([uRun[1] EXCEPT !.results[modelId] =
                             [k \in DOMAIN @ \cup {scenario} |->
                                 IF k = scenario THEN [runs |-> << >>] ELSE @[k]]])
    /\ uBefore' = Null
    /\ UNCHANGED <<engineVars, summaryVars, mergeVars, startVars, progressVars>>

\* one more run, passed or failed, in a scenario of a model
DrawRunResult ==
    /\ TreeRunCount(uRun[1].results) < MaxTreeRuns
    /\ \E modelId \in DOMAIN uRun[1].results :
          \E scenario \in DOMAIN uRun[1].results[modelId], success \in BOOLEAN :
             uRun' = Some([uRun[1] EXCEPT !.results[modelId][scenario].runs =
                             Append(@, [runNumber |-> Len(@) + 1, success |-> success])])
    /\ uBefore' = Null
    /\ UNCHANGED <<engineVars, summaryVars, mergeVars, startVars, progressVars>>

\* updateRunSummary(run)
CallUpdateRunSummary ==
    /\ uBefore = Null
    /\ uBefore' = Some(uRun[1].results)
    /\ uRun' = Some([uRun[1] EXCEPT !.summary = updateRunSummary(uRun[1].results)])
    /\ UNCHANGED <<engineVars, summaryVars, mergeVars, startVars, progressVars>>

NextTree ==
    \/ DrawModel
    \/ DrawScenario
    \/ DrawRunResult
    \/ CallUpdateRunSummary

SpecTree == InitTree /\ [][NextTree]_vars

-----------------------------------------------------------------------------
(* onProgress on drawn callbacks: the callbacks of the one-shot scenario 1 *)
(* carry a log entry, by turns a request and a response; those of the      *)
(* sequential scenario 3 carry none.  The model or the scenario changes at *)
(* most once.                                                              *)

ProgressConfig == [runsPerScenario |-> 1, maxRetries |-> 0]

\* the model and scenario of the callbacks
ProgressSources ==
    {[modelId |-> "openai-gpt5", scenario |-> 1],
     [modelId |-> "google-pro", scenario |-> 1],
     [modelId |-> "openai-gpt5", scenario |-> 3]}

\* the callback number n of a source
DrawnProgress(source, n) ==
    IF source.scenario = 1
    THEN IF n % 2 = 1
         THEN TestProgress(source.modelId, 1, 1, 1, "running", Some("request"))
         ELSE TestProgress(source.modelId, 1, 1, 1, "failed", Some("response"))
    ELSE TestProgress(source.modelId, source.scenario, 1, 1, "running", Null)

SourceOf(progress) == [modelId |-> progress.modelId, scenario |-> progress.scenario]

InitProgress ==
    /\ pProgress = InitialProgress(<<"openai-gpt5", "google-pro">>, <<1, 3>>,
                                   ProgressConfig)
    /\ pHistory = << >>
    /\ EngineUnused
    /\ StorageUnused
    /\ SummaryUnused
    /\ MergeUnused
    /\ StartUnused
    /\ TreeUnused

\* a callback reaches onProgress
DeliverProgress ==
    /\ Len(pHistory) < MaxProgressEvents
    /\ \E source \in ProgressSources :
          /\ IF pHistory = << >> THEN TRUE
             ELSE IF source = SourceOf(pHistory[Len(pHistory)]) THEN TRUE
             ELSE \A i \in 1..Len(pHistory) : SourceOf(pHistory[i]) = SourceOf(pHistory[1])
          /\ LET progress == DrawnProgress(source, Len(pHistory) + 1)
             IN  /\ pProgress' = onProgress(pProgress, progress,
                                            ProgressConfig.runsPerScenario)
                 /\ pHistory' = Append(pHistory, progress)
    /\ UNCHANGED <<engineVars, summaryVars, mergeVars, startVars, treeVars>>

NextProgress == DeliverProgress

SpecProgress == InitProgress /\ [][NextProgress]_vars

-----------------------------------------------------------------------------
(* calculateScenarioSummary on drawn run lists.                            *)

\* the attempts drawn, as the mock attempts of the storage tests: a success
\* flag and token counts, which may be missing or zero
DrawnAttempt(n, success, inputTokens, outputTokens) ==
    [attemptNumber |-> n,
     success |-> success,
     inputTokens |-> inputTokens,
     outputTokens |-> outputTokens,
     rawResponse |-> "mock response",
     parsedResponse |-> IF success THEN Some([test |-> "data"]) ELSE Null,
     validationErrors |-> << >>,
     errorMessage |-> Null]

DrawnAttemptShapes ==
    {[success |-> TRUE, inputTokens |-> Some(100), outputTokens |-> Some(50)],
     [success |-> FALSE, inputTokens |-> Some(80), outputTokens |-> Null],
     [success |-> FALSE, inputTokens |-> Null, outputTokens |-> Some(0)]}

DrawnRunShapes ==
    {[success |-> TRUE, totalDurationMs |-> 5000],
     [success |-> FALSE, totalDurationMs |-> 7000]}

InitSummary ==
    /\ sRuns = << >>
    /\ sSummary = Null
    /\ EngineUnused
    /\ StorageUnused
    /\ MergeUnused
    /\ StartUnused
    /\ TreeUnused
    /\ ProgressUnused

\* one more run, with no attempts yet, at the end of the list
DrawRun ==
    /\ sSummary = Null
    /\ Len(sRuns) < MaxSummaryRuns
    /\ \E shape \in DrawnRunShapes :
          sRuns' = Append(sRuns,
                          [runNumber |-> Len(sRuns) + 1,
                           success |-> shape.success,
                           attempts |-> << >>,
                           totalDurationMs |-> shape.totalDurationMs,
                           finalResponse |-> IF shape.success
                                             THEN Some([test |-> "data"])
                                             ELSE Null])
    /\ UNCHANGED <<sSummary, engineVars, mergeVars, startVars, treeVars,
                   progressVars>>

\* one more attempt at the end of the last run of the list
DrawAttempt ==
    /\ sSummary = Null
    /\ sRuns # << >>
    /\ TotalAttempts(sRuns) < MaxSummaryAttempts
    /\ \E shape \in DrawnAttemptShapes :
          LET last == sRuns[Len(sRuns)]
              a == DrawnAttempt(Len(last.attempts) + 1, shape.success,
                                shape.inputTokens, shape.outputTokens)
          IN  sRuns' = [sRuns EXCEPT ![Len(sRuns)].attempts = Append(last.attempts, a)]
    /\ UNCHANGED <<sSummary, engineVars, mergeVars, startVars, treeVars,
                   progressVars>>

\* const summary = calculateScenarioSummary(runs)
CallCalculateScenarioSummary ==
    /\ sSummary = Null
    /\ sSummary' = Some(calculateScenarioSummary(sRuns))
    /\ UNCHANGED <<sRuns, engineVars, mergeVars, startVars, treeVars,
                   progressVars>>

NextSummary ==
    \/ DrawRun
    \/ DrawAttempt
    \/ CallCalculateScenarioSummary

SpecSummary == InitSummary /\ [][NextSummary]_vars

-----------------------------------------------------------------------------
(* mergeSequentialParts on drawn parts.                                    *)

InitMerge ==
    /\ mPart1 \in {Some(p) : p \in Part1Objects}
    /\ mPart2 \in {Some(p) : p \in Part2Objects}
    /\ mPart3 \in {Some(p) : p \in Part3Objects}
    /\ mMerged = Null
    /\ EngineUnused
    /\ StorageUnused
    /\ SummaryUnused
    /\ StartUnused
    /\ TreeUnused
    /\ ProgressUnused

\* const merged = mergeSequentialParts(part1, part2, part3)
CallMergeSequentialParts ==
    /\ mMerged = Null
    /\ mMerged' = Some(mergeSequentialParts(mPart1[1], mPart2[1], mPart3[1]))
    /\ UNCHANGED <<mPart1, mPart2, mPart3, engineVars, summaryVars, startVars,
                   treeVars, progressVars>>

NextMerge == CallMergeSequentialParts

SpecMerge == InitMerge /\ [][NextMerge]_vars


-----------------------------------------------------------------------------
(* Properties.                                                             *)

\* the runs a scenario has pushed so far: those of its stored result, or the
\* ones pushed by the scenario in progress
RecordedRuns(s) ==
    IF s \in DOMAIN results THEN results[s].runs
    ELSE IF scenarioIdx \in 1..Len(scenarios) /\ scenarios[scenarioIdx] = s
         THEN runs
         ELSE << >>

LastSuccess(run) == run.attempts[Len(run.attempts)].success

C2_OneShotStopsAtSuccess ==
    /\ \A s \in {1, 2} : \A i \in 1..Len(RecordedRuns(s)) :
          LET run == RecordedRuns(s)[i]
          IN  /\ \A j \in 1..Len(run.attempts) :
                    run.attempts[j].success => j = Len(run.attempts)
              /\ run.success <=> \E j \in 1..Len(run.attempts) : run.attempts[j].success
              /\ run.finalResponse # Null <=> run.success
    /\ (pc = "awaiting" /\ scenarios[scenarioIdx] \in {1, 2})
          => \A j \in 1..Len(attempts) : ~attempts[j].success

\* a one-shot run that failed once and then succeeded
C2_Witness ==
    \E s \in {1, 2} : \E i \in 1..Len(RecordedRuns(s)) :
        LET run == RecordedRuns(s)[i]
        IN  /\ Len(run.attempts) >= 2
            /\ run.success
            /\ ~run.attempts[1].success

\* C3: in every stored ScenarioResult
\* 0 <= firstAttempt <= afterRetry1 <= afterRetry2 <= afterRetry3 <= successRate.
C3_RatesAreOrdered ==
    \A s \in DOMAIN results :
        LET m == results[s].summary
        IN  /\ RatLeq(Rat(0, 1), m.firstAttemptSuccessRate)
            /\ RatLeq(m.firstAttemptSuccessRate, m.afterRetry1SuccessRate)
            /\ RatLeq(m.afterRetry1SuccessRate, m.afterRetry2SuccessRate)
            /\ RatLeq(m.afterRetry2SuccessRate, m.afterRetry3SuccessRate)
            /\ RatLeq(m.afterRetry3SuccessRate, m.successRate)

\* C4: with maxRetries = 3 every stored ScenarioResult has
\* successRate = afterRetry3SuccessRate.
C4_SuccessRateIsLastTier ==
    (config # Null /\ config.maxRetries = 3)
        => \A s \in DOMAIN results :
              RatEq(results[s].summary.successRate,
                    results[s].summary.afterRetry3SuccessRate)

\* whether an attempt at a 0-based position <= k of the run succeeded
SucceededWithin(run, k) ==
    \E j \in 1..Len(run.attempts) : j <= k + 1 /\ run.attempts[j].success

CountSucceededWithin(rs, k) ==
    Cardinality({i \in 1..Len(rs) : SucceededWithin(rs[i], k)})

\* C5: for a non-empty run list the tier k = 1, 2, 3 counts the runs with a
\* successful attempt at a 0-based position <= k, firstAttemptSuccessRate counts
\* the runs whose attempt 0 succeeded, and so no run counts twice in a tier.
C5_TiersAreCumulative ==
    (sSummary # Null /\ sRuns # << >>)
        => LET m == sSummary[1]
               n == Len(sRuns)
           IN  /\ m.firstAttemptSuccessRate = Rat(CountSucceededWithin(sRuns, 0) * 100, n)
               /\ m.afterRetry1SuccessRate = Rat(CountSucceededWithin(sRuns, 1) * 100, n)
               /\ m.afterRetry2SuccessRate = Rat(CountSucceededWithin(sRuns, 2) * 100, n)
               /\ m.afterRetry3SuccessRate = Rat(CountSucceededWithin(sRuns, 3) * 100, n)

\* a summary of a list with a run whose first two attempts both succeeded
C5_Witness ==
    /\ sSummary # Null
    /\ \E i \in 1..Len(sRuns) :
          /\ Len(sRuns[i].attempts) >= 2
          /\ sRuns[i].attempts[1].success
          /\ sRuns[i].attempts[2].success

\* C6: the summary of the empty run list has every rate, both averages and
\* totalTokensUsed equal to 0, each a number (no division by zero).
C6_EmptySummaryIsZero ==
    (sSummary # Null /\ sRuns = << >>)
        => LET m == sSummary[1]
           IN  /\ \A f \in {"successRate", "firstAttemptSuccessRate",
                            "afterRetry1SuccessRate", "afterRetry2SuccessRate",
                            "afterRetry3SuccessRate", "averageDurationMs",
                            "averageAttempts"} :
                      m[f].num = 0 /\ m[f].den # 0
               /\ m.totalTokensUsed = 0

C6_Witness == sSummary # Null /\ sRuns = << >>

AttemptPositions(rs) ==
    UNION {{<<i, j>> : j \in 1..Len(rs[i].attempts)} : i \in 1..Len(rs)}

RECURSIVE SumOverPositions(_, _)
SumOverPositions(S, rs) ==
    IF S = {} THEN 0
    ELSE LET p == CHOOSE q \in S : TRUE
             a == rs[p[1]].attempts[p[2]]
         IN  NullishOrZero(a.inputTokens) + NullishOrZero(a.outputTokens)
             + SumOverPositions(S \ {p}, rs)

\* C8: totalTokensUsed is the sum, over every attempt of every run, of
\* inputTokens plus outputTokens, a missing count contributing 0.
C8_TokensOfEveryAttempt ==
    sSummary # Null
        => sSummary[1].totalTokensUsed
              = SumOverPositions(AttemptPositions(sRuns), sRuns)

\* a summary of a list with a failed run one of whose attempts lacks a count
C8_Witness ==
    /\ sSummary # Null
    /\ \E i \in 1..Len(sRuns) :
          /\ ~sRuns[i].success
          /\ \E j \in 1..Len(sRuns[i].attempts) :
                /\ ~sRuns[i].attempts[j].success
                /\ sRuns[i].attempts[j].inputTokens # Null
                /\ sRuns[i].attempts[j].outputTokens = Null

RECURSIVE SumOfDurations(_, _)
SumOfDurations(S, rs) ==
    IF S = {} THEN 0
    ELSE LET i == CHOOSE q \in S : TRUE
         IN  rs[i].totalDurationMs + SumOfDurations(S \ {i}, rs)

C10_MergeIsFieldByField ==
    mMerged # Null
        => LET m == mMerged[1]
               p1 == mPart1[1]
               p2 == mPart2[1]
               p3 == mPart3[1]
           IN  /\ DOMAIN m = {"recommendation", "action"}
               /\ m.recommendation = p1.recommendation
               /\ p1.action = Null => m.action = Null
               /\ p1.action = Some("create_actor")
                     => /\ m.action # Null
                        /\ DOMAIN m.action[1] = {"type", "actor"}
                        /\ m.action[1].type = "create_actor"
                        /\ DOMAIN m.action[1].actor
                              = {"title", "reason", "skills", "prompt", "model"}
                        /\ m.action[1].actor.title = p2.title
                        /\ m.action[1].actor.reason = p2.reason
                        /\ m.action[1].actor.skills = p2.skills
                        /\ m.action[1].actor.prompt = p3.prompt
                        /\ m.action[1].actor.model = p3.model

\* a merge of parts whose action is 'create_actor' and whose texts all differ
C10_Witness ==
    /\ mMerged # Null
    /\ mPart1[1].action = Some("create_actor")
    /\ mPart2[1].title # mPart2[1].reason
    /\ mMerged[1].action # Null


\* whether the text t occurs in the text s
Contains(s, t) ==
    \E i \in 1..(Len(s) - Len(t) + 1) : SubSeq(s, i, i + Len(t) - 1) = t

\* whether the texts ts occur in s one after the other, from position from on
RECURSIVE ContainsInOrder(_, _, _)
ContainsInOrder(s, ts, from) ==
    IF ts = << >> THEN TRUE
    ELSE \E i \in from..(Len(s) - Len(ts[1]) + 1) :
            /\ SubSeq(s, i, i + Len(ts[1]) - 1) = ts[1]
            /\ ContainsInOrder(s, Tail(ts), i + Len(ts[1]))

\* field path and message of an error, as the retry instruction shows them
PathAndMessage(err) ==
    (IF err.path = << >> THEN "root" ELSE JoinPath(err.path)) \o ": " \o err.message

InSequentialRun == pc = "awaiting" /\ scenarios[scenarioIdx] \in {3, 4}

\* the first successful attempt of a run, 0 when it has none
FirstSuccess(run) ==
    IF \E j \in 1..Len(run.attempts) : run.attempts[j].success
    THEN CHOOSE j \in 1..Len(run.attempts) :
            /\ run.attempts[j].success
            /\ \A k \in 1..(j - 1) : ~run.attempts[k].success
    ELSE 0

\* C11: in a sequential run whose step 1 succeeded with action null the
\* generator is not called for step 2 or step 3, and the final response of the
\* run has action null.
C11_NullActionShortCircuit ==
    /\ (InSequentialRun /\ step >= 2) => stepResults[1].action # Null
    /\ \A s \in {3, 4} : \A i \in 1..Len(RecordedRuns(s)) :
          LET run == RecordedRuns(s)[i]
          IN  (/\ run.success
               /\ run.attempts[FirstSuccess(run)].parsedResponse[1].action = Null)
                 => run.finalResponse[1].action = Null

\* C12: in every scenario the messages of an attempt k > 1 hold the raw
\* response of attempt k - 1 as an assistant turn, followed by a retry
\* instruction that contains that raw response and, in order, the field path
\* ('root' for the empty path) and the message of each of its validation errors.
C12_RetryCarriesFeedback ==
    (pc = "awaiting" /\ attempt > 1)
        => LET prev == attempts[Len(attempts)]
           IN  \E i \in 1..(Len(messages) - 1) :
                  /\ messages[i] = Message("assistant", prev.rawResponse)
                  /\ messages[i + 1].role = "user"
                  /\ Contains(messages[i + 1].content, prev.rawResponse)
                  /\ ContainsInOrder(messages[i + 1].content,
                        [e \in 1..Len(prev.validationErrors) |->
                            PathAndMessage(prev.validationErrors[e])], 1)

\* whether attempt j of the run is the last attempt a step may make, failed
ExhaustsStep(run, j) ==
    /\ run.attempts[j].attemptNumber = config.maxRetries + 1
    /\ ~run.attempts[j].success

\* C13: in a sequential run, a step that fails all its maxRetries + 1 attempts
\* ends the run: the run is recorded with success false and finalResponse null,
\* no attempt of a later step follows, and the next run of the scenario starts.
C13_ExhaustedStepEndsRun ==
    /\ \A s \in {3, 4} : \A i \in 1..Len(RecordedRuns(s)) :
          LET run == RecordedRuns(s)[i]
          IN  \A j \in 1..Len(run.attempts) :
                 ExhaustsStep(run, j)
                    => /\ j = Len(run.attempts)
                       /\ ~run.success
                       /\ run.finalResponse = Null
    /\ InSequentialRun
          => /\ \A j \in 1..Len(attempts) :
                   ~(/\ attempts[j].attemptNumber = config.maxRetries + 1
                     /\ ~attempts[j].success)
             /\ runNum = Len(runs) + 1
    /\ \A s \in {3, 4} :
          (/\ pc \in {"awaiting", "returned", "threw"}
           /\ scenarios[scenarioIdx] = s
           /\ s \notin DOMAIN results)
             => pc = "awaiting" /\ Len(runs) < config.runsPerScenario

\* a sequential run ended by its second step failing both of its attempts,
\* and the run after it under way
C13_Witness ==
    /\ InSequentialRun
    /\ config.maxRetries = 1
    /\ Len(runs) = 1
    /\ Len(runs[1].attempts) >= 3
    /\ ExhaustsStep(runs[1], Len(runs[1].attempts))
    /\ Len(attempts) >= 1

\* the attempts recorded by the steps before the one in progress
EarlierStepAttempts == SubSeq(attempts, 1, Len(attempts) - (attempt - 1))

\* C14: in a sequential run the messages of step 2 hold the validated result
\* of step 1 as an assistant turn, those of step 3 hold the validated results
\* of steps 1 and 2 as assistant turns in that order, and no raw response of a
\* failed attempt of an earlier step is in the message list of a later step.
C14_ContextIsValidatedResults ==
    InSequentialRun
        => LET first == SubSeq(messages, 1, step + 2)
               json1 == JSONStringify("Part1", stepResults[1])
               json2 == JSONStringify("Part2", stepResults[2])
           IN  /\ Len(messages) >= step + 2
               /\ step = 2 => \E i \in 1..Len(first) :
                                 first[i] = Message("assistant", json1)
               /\ step = 3 => \E i, j \in 1..Len(first) :
                                 /\ i < j
                                 /\ first[i] = Message("assistant", json1)
                                 /\ first[j] = Message("assistant", json2)
               \* the turns of the first list are the context, the validated
               \* results and the prompt of the step
               /\ \A i \in 1..Len(first) :
                     IF first[i].role = "assistant"
                     THEN /\ step >= 2
                          /\ first[i].content \in
                                {json1} \cup (IF step = 3 THEN {json2} ELSE {})
                     ELSE first[i].content \in
                             {systemPrompt,
                              "Here is a conversation between team members:\n\n"
                                 \o conversationText,
                              sequentialPrompts(step, scenarios[scenarioIdx] = 4)}
               \* what follows is the retry context of the step in progress
               /\ \A i \in (step + 3)..Len(messages) :
                     messages[i].role = "assistant"
                        => \E k \in (Len(EarlierStepAttempts) + 1)..Len(attempts) :
                              messages[i].content = attempts[k].rawResponse
               /\ \A k \in 1..Len(EarlierStepAttempts) :
                     ~attempts[k].success
                        => \A i \in 1..Len(first) :
                              first[i].content # attempts[k].rawResponse

\* step 3 of a guided sequential run under way, a failed attempt of an
\* earlier step recorded with its raw response
C14_Witness ==
    /\ InSequentialRun
    /\ scenarios[scenarioIdx] = 3
    /\ step = 3
    /\ attempt = 1
    /\ \E k \in 1..Len(attempts) :
          ~attempts[k].success /\ attempts[k].rawResponse # ""

\* C15: a generator call that fails with a transient transport error is
\* recorded as a failed attempt and retried within the budget of the run,
\* and the error does not leave the run, the scenario or runFullTestSuite.
C15_TransientFailureAbsorbed ==
    (lastCall # Null /\ lastCall[1].error = Some(TransientErrorMessage))
        => /\ pc # "threw"
           /\ activeRun.status # "error"
           /\ lastCall[1].attempt # Null
           /\ ~lastCall[1].attempt[1].success
           /\ lastCall[1].attempt[1].attemptNumber < config.maxRetries + 1
                 => /\ pc = "awaiting"
                    /\ runNum = lastCall[1].runNumber
                    /\ attempt = lastCall[1].attempt[1].attemptNumber + 1

\* C16: once a generator call has failed with an authentication error, the
\* scenario makes no further generator call: the engine is not waiting for
\* another attempt of the same scenario.
C16_AuthFailureAbortsScenario ==
    (lastCall # Null /\ lastCall[1].error = Some(AuthErrorMessage))
        => ~(pc = "awaiting" /\ scenarios[scenarioIdx] = lastCall[1].scenario)

\* C17: when the suite has ended, by returning or by an error raised in a run,
\* the caller holds a ScenarioResult for every scenario attempted, with the
\* runs completed before the end and the summary of those runs.
C17_PartialResultsDelivered ==
    activeRun.status \in {"complete", "error"}
        => /\ \A m \in DOMAIN suiteResults :
                 m \in DOMAIN activeRun.results
                    /\ activeRun.results[m] = suiteResults[m]
           /\ \A i \in 1..scenarioIdx :
                 LET s == scenarios[i]
                     m == modelIds[modelIdx]
                 IN  /\ m \in DOMAIN activeRun.results
                     /\ s \in DOMAIN activeRun.results[m]
                     /\ activeRun.results[m][s].runs = RecordedRuns(s)
                     /\ activeRun.results[m][s].summary
                           = calculateScenarioSummary(RecordedRuns(s))

\* C18: the attempt recorded for a generator call that failed at the transport
\* level has a non-null errorMessage and an empty validationErrors list.
C18_TransportFailureHasErrorMessage ==
    (lastCall # Null /\ lastCall[1].kind = "rejects" /\ lastCall[1].attempt # Null)
        => /\ lastCall[1].attempt[1].errorMessage # Null
           /\ lastCall[1].attempt[1].validationErrors = << >>

\* every attempt recorded so far: those of the recorded runs and those of the
\* run in progress
AllRecordedAttempts ==
    UNION {UNION {{RecordedRuns(s)[i].attempts[j] :
                      j \in 1..Len(RecordedRuns(s)[i].attempts)} :
                  i \in 1..Len(RecordedRuns(s))} : s \in ScenarioIds}
    \cup {attempts[j] : j \in 1..Len(attempts)}

\* C19: a successful attempt has a parsedResponse, no validation error and no
\* errorMessage; a failed attempt has no parsedResponse and exactly one of a
\* non-empty validationErrors list and a non-null errorMessage.
C19_AttemptShape ==
    \A a \in AllRecordedAttempts :
        IF a.success
        THEN /\ a.parsedResponse # Null
             /\ a.validationErrors = << >>
             /\ a.errorMessage = Null
        ELSE /\ a.parsedResponse = Null
             /\ (a.validationErrors # << >>) # (a.errorMessage # Null)

\* a run of an enforced scenario that recorded a rejected call and a schema
\* failure, and then succeeded
C19_Witness ==
    \E s \in {2, 4} : \E i \in 1..Len(RecordedRuns(s)) :
        LET run == RecordedRuns(s)[i]
        IN  /\ run.success
            /\ \E j \in 1..Len(run.attempts) :
                  /\ ~run.attempts[j].success
                  /\ run.attempts[j].validationErrors[1].code = "api_error"
            /\ \E j \in 1..Len(run.attempts) :
                  /\ ~run.attempts[j].success
                  /\ run.attempts[j].validationErrors[1].code # "api_error"

\* the final validation of the merged object never fails: a sequential run
\* whose three steps all succeeded is recorded as a success, so the catch of
\* the run is never entered from ResponseSchema.parse(merged)
MergedObjectAlwaysValid ==
    \A s \in {3, 4} : \A i \in 1..Len(RecordedRuns(s)) :
        LET run == RecordedRuns(s)[i]
        IN  Cardinality({j \in 1..Len(run.attempts) : run.attempts[j].success}) = 3
               => run.success

-----------------------------------------------------------------------------
(* The order of the generator calls, the tokens and the attempts of a run. *)

IndexOf(seq, x) == CHOOSE i \in 1..Len(seq) : seq[i] = x

\* a comes before b in the order of the loops
Precedes(a, b) ==
    \E k \in 1..Len(a) : a[k] < b[k] /\ \A j \in 1..(k - 1) : a[j] = b[j]

\* where the call that came back last was made, and where the call in flight is
LastCallPosition ==
    << IndexOf(modelIds, lastCall[1].modelId), IndexOf(scenarios, lastCall[1].scenario),
       lastCall[1].runNumber, lastCall[1].step, lastCall[1].attemptNumber >>

CallPosition == << modelIdx, scenarioIdx, runNum, step, attempt >>

C26_NoUsageLeavesTokensUnset ==
    usage = Null =>
        \A a \in AllRecordedAttempts : a.inputTokens = Null /\ a.outputTokens = Null

\* C28, as stated: every recorded run has at least one attempt, in all four
\* scenarios.
C28_RunHasAnAttempt ==
    \A s \in ScenarioIds : \A i \in 1..Len(RecordedRuns(s)) :
        Len(RecordedRuns(s)[i].attempts) >= 1

-----------------------------------------------------------------------------
(* Cancellation and the progress callbacks.                                *)

\* C21, as stated: once DELETE has been accepted for a running run, the
\* engine starts no new attempt: no generator call begins after the call that
\* was in flight when the request was accepted.
C21_NoCallAfterCancel ==
    cancelAccepted # Null => callCount <= cancelAccepted[1]

\* the callback is about this model, scenario, run and attempt
IsCallbackFor(progress, modelId, scenario, runNumber, attemptNumber) ==
    /\ progress.modelId = modelId
    /\ progress.scenario = scenario
    /\ progress.runNumber = runNumber
    /\ progress.attemptNumber = attemptNumber

\* C22, as stated: in all four scenarios every attempt is announced by a
\* callback with status 'running' or 'retrying' before its generator call and
\* reported by a callback with status 'success' or 'failed' after it, both
\* carrying the model id, scenario, run number and attempt number; the
\* callbacks of an attempt come before those of the next.
C22_CallbacksAroundEveryAttempt ==
    /\ pc = "awaiting" =>
          /\ emitted # << >>
          /\ IsCallbackFor(emitted[Len(emitted)], modelIds[modelIdx],
                           scenarios[scenarioIdx], runNum, attempt)
          /\ emitted[Len(emitted)].status \in {"running", "retrying"}
    /\ (lastCall # Null /\ lastCall[1].attempt # Null) =>
          /\ emitted # << >>
          /\ IsCallbackFor(emitted[1], lastCall[1].modelId, lastCall[1].scenario,
                           lastCall[1].runNumber, lastCall[1].attemptNumber)
          /\ emitted[1].status
                = IF lastCall[1].attempt[1].success THEN "success" ELSE "failed"

\* the cells of a row with a status
CellsWith(row, status) == {k \in 1..Len(row.attempts) : row.attempts[k] = status}

\* the grid is consistent
GridIsConsistent(grid) ==
    /\ \A i \in 1..Len(grid) :
          /\ grid[i].final = "success" =>
                /\ Cardinality(CellsWith(grid[i], "success")) = 1
                /\ \A k \in CellsWith(grid[i], "success") :
                      \A j \in 1..(k - 1) : grid[i].attempts[j] = "failed"
          /\ grid[i].final \in {"success", "failed"} =>
                CellsWith(grid[i], "running") = {}
    /\ \A i, j \in 1..Len(grid) :
          (CellsWith(grid[i], "running") # {} /\ CellsWith(grid[j], "running") # {})
             => i = j
    /\ \A i \in 1..Len(grid) : Cardinality(CellsWith(grid[i], "running")) <= 1

\* C29, as stated: in one-stage and three-stage scenarios the progress grid
\* a poller reads is consistent: a row has final 'success' only if exactly
\* one of its cells is 'success' and every earlier cell is 'failed', a row
\* with final 'success' or 'failed' has no cell 'running', and at most one
\* cell of the whole grid is 'running'.
C29_GridIsConsistent == GridIsConsistent(tracker.runs)

\* the grid is consistent while a one-stage scenario runs
GridIsConsistentInOneShot ==
    (pc # "start" /\ Stages(scenarios[scenarioIdx]) = 1)
        => GridIsConsistent(tracker.runs)

-----------------------------------------------------------------------------
(* Starting a run, the summary of a run and the log of a run.              *)

\* the elements of a sequence that are in a set, in their order
RECURSIVE Keep(_, _)
Keep(seq, kept) ==
    IF seq = << >> THEN << >>
    ELSE IF Head(seq) \in kept THEN << Head(seq) >> \o Keep(Tail(seq), kept)
    ELSE Keep(Tail(seq), kept)

KnownModelIds == {models[i] : i \in 1..Len(models)}

\* C23: POST keeps the model ids that are configured and the scenarios from
\* 1 to 4 (all models and the four scenarios when the body names none).  When
\* one of the two filtered lists is empty the request is rejected with an
\* error, no record is set in the active-runs map and the engine is not
\* started; otherwise a record is set and the engine is started with exactly
\* the filtered lists.
C23_StartUsesFilteredSets ==
    (lastPost # Null /\ lastPost[1].body.kind = "json") =>
        LET body == lastPost[1].body
            response == lastPost[1].response
            started == lastPost[1].started
            wantedModels ==
                Keep(IF body.models = Null THEN models ELSE body.models[1],
                     KnownModelIds)
            wantedScenarios ==
                Keep(IF body.scenarios = Null THEN << 1, 2, 3, 4 >>
                     ELSE body.scenarios[1], 1..4)
        IN  IF wantedModels = << >> \/ wantedScenarios = << >>
            THEN /\ response.status = 400
                 /\ "error" \in DOMAIN response
                 /\ started = Null
                 /\ handled \notin DOMAIN activeRuns
            ELSE /\ response.status = 200
                 /\ started # Null
                 /\ started[1].runId = response.runId
                 /\ started[1].modelIds = wantedModels
                 /\ started[1].scenarios = wantedScenarios
                 /\ response.runId \in DOMAIN activeRuns
                 /\ activeRuns[response.runId].run.config.models = wantedModels
                 /\ activeRuns[response.runId].run.config.scenarios = wantedScenarios

\* a request that names an unknown model and scenarios outside 1..4 among
\* valid ones has started the engine with the valid ones
C23_Witness ==
    /\ lastPost # Null
    /\ lastPost[1].body.kind = "json"
    /\ lastPost[1].body.models = Some(<<"unknown-model", "openai-gpt5">>)
    /\ lastPost[1].body.scenarios = Some(<<0, 1, 4, 5>>)
    /\ lastPost[1].started # Null
    /\ lastPost[1].started[1].modelIds = <<"openai-gpt5">>
    /\ lastPost[1].started[1].scenarios = <<1, 4>>

\* C25, as stated: at most one entry of the active-runs map has status
\* 'running', whatever the number of start requests.
C25_OneRunningEntry ==
    Cardinality({id \in DOMAIN activeRuns : activeRuns[id].status = "running"}) <= 1

\* the runs of a results tree, each as <<model id, scenario, index>>
TreePositions(tree) ==
    UNION {UNION {{<<m, k, i>> : i \in 1..Len(tree[m][k].runs)} :
                     k \in DOMAIN tree[m]} : m \in DOMAIN tree}

\* C27: after updateRunSummary, totalTests is the number of runs of the
\* results tree, passed the number of those with success, failed is
\* totalTests - passed, successRate is 100 * passed / totalTests, or 0 when
\* the tree has no run; the results tree is as it was.
C27_RunSummaryCountsRuns ==
    uBefore # Null =>
        LET tree == uBefore[1]
            total == Cardinality(TreePositions(tree))
            passed == Cardinality({p \in TreePositions(tree) :
                                     tree[p[1]][p[2]].runs[p[3]].success})
            summary == uRun[1].summary
        IN  /\ summary.totalTests = total
            /\ summary.passed = passed
            /\ summary.failed = total - passed
            /\ IF total = 0 THEN RatEq(summary.successRate, Rat(0, 1))
               ELSE RatEq(summary.successRate, Rat(100 * passed, total))
            /\ summary.successRate.den # 0
            /\ uRun[1].results = tree

\* the summary of a tree of two models with runs passed and failed
C27_Witness ==
    /\ uBefore # Null
    /\ Cardinality(DOMAIN uBefore[1]) = 2
    /\ uRun[1].summary.totalTests = 3
    /\ uRun[1].summary.passed = 2
    /\ \A m \in DOMAIN uBefore[1] :
          \E k \in DOMAIN uBefore[1][m] : uBefore[1][m][k].runs # << >>

\* the callbacks since the model or the scenario changed last that carry a
\* log entry, by their numbers in the history
LoggedSinceChange(history) ==
    LET n == Len(history)
        first == CHOOSE j \in 1..n :
                    /\ j = 1 \/ SourceOf(history[j]) # SourceOf(history[j - 1])
                    /\ \A k \in (j + 1)..n :
                          SourceOf(history[k]) = SourceOf(history[k - 1])
    IN  {k \in first..n : history[k].logEntry # Null}

-----------------------------------------------------------------------------
(* The shape of the progress grid and the count of completed runs.         *)

\* C31, as stated: after any sequence of progress callbacks the grid has
\* exactly runsPerScenario rows and every row has exactly maxAttempts
\* (maxRetries + 1) cells: no callback writes a cell at an index at or past
\* maxAttempts.
C31_GridKeepsItsShape ==
    /\ Len(tracker.runs) = config.runsPerScenario
    /\ \A i \in 1..Len(tracker.runs) :
          Len(tracker.runs[i].attempts) = config.maxRetries + 1

\* the grid keeps its shape while a one-stage scenario runs
GridKeepsItsShapeInOneShot ==
    (pc # "start" /\ Stages(scenarios[scenarioIdx]) = 1)
        => C31_GridKeepsItsShape

\* C32, as stated: completedRuns counts every finished run once: it never
\* exceeds totalRuns, and when the status is 'complete' it equals
\* models x scenarios x runsPerScenario.
C32_CompletedRunsCountsEveryRun ==
    /\ tracker.completedRuns <= tracker.totalRuns
    /\ tracker.totalRuns
          = Len(modelIds) * Len(scenarios) * config.runsPerScenario
    /\ activeRun.status = "complete"
          => tracker.completedRuns = tracker.totalRuns

-----------------------------------------------------------------------------
(* The status of the run and what reaches storage.                         *)

\* the status moves only from 'running', to 'complete', 'cancelled' or 'error'
StatusStep ==
    activeRun'.status # activeRun.status
        => /\ activeRun.status = "running"
           /\ activeRun'.status \in {"complete", "cancelled", "error"}

\* nothing of a cancelled run is written to storage
CancelledRunIsNotSaved ==
    activeRun.status = "cancelled" => (indexRuns' = indexRuns /\ files' = files)

\* C33, as stated: the status of an active run only moves from 'running' to
\* 'complete', 'cancelled' or 'error' and stays there: a cancelled run never
\* becomes 'complete' or 'error', and its results are never written to storage.
C33_CancelledIsTerminal == [][StatusStep /\ CancelledRunIsNotSaved]_vars

\* without DELETE requests the status moves once, from 'running' to
\* 'complete' or 'error'
StatusMovesOnce == [][StatusStep]_vars

-----------------------------------------------------------------------------
(* Termination of a run.                                                   *)

\* the executions followed to their end cost at most this many calls
MaxLiveCostBound == 6

\* the engine when every generator call in flight comes back: the await of a
\* call resumes the scenario loop once the call has returned or thrown
\* (weak fairness of the calls coming back)
InitLive ==
    /\ config \in Configs
    /\ modelIds \in ModelIdLists
    /\ scenarios \in ScenarioLists
    /\ SuiteCost(modelIds, scenarios, config) <= MaxLiveCostBound
    /\ \E p \in Providers : usage = p.usage /\ rejection = p.rejection
    /\ EngineStarts
    /\ StorageUnused
    /\ SummaryUnused
    /\ MergeUnused
    /\ StartUnused
    /\ TreeUnused
    /\ ProgressUnused

\* the generator call in flight comes back (it returns or throws) and the
\* engine runs on to its next generator call or to its end; the engine at
\* its start runs on to its first call.  Every step of Next is such a step.
CallComesBack ==
    /\ pc \in {"start", "awaiting"}
    /\ \/ pc' = "awaiting" /\ callCount' = callCount + 1
       \/ pc' \in {"returned", "threw"} /\ callCount' = callCount

SpecLive == InitLive /\ [][Next]_vars /\ WF_<<pc, callCount>>(CallComesBack)

\* models x scenarios x runsPerScenario x stages x (maxRetries + 1)
InvocationBound == Len(modelIds) * CallsNeeded(scenarios, config)

\* C34: when every generator call eventually returns or throws, a started
\* run ends: its status eventually is 'complete' or 'error', and it makes at
\* most models x scenarios x runsPerScenario x stages x (maxRetries + 1)
\* generator calls, with 1 stage in scenarios 1 and 2 and 3 in 3 and 4.
C34_RunTerminates ==
    /\ <>(activeRun.status \in {"complete", "error"})
    /\ [](callCount <= InvocationBound)

\* a run with a three-stage scenario and retries that ended after as many
\* calls as the bound allows
C34_Witness ==
    /\ activeRun.status = "complete"
    /\ callCount = InvocationBound
    /\ config.maxRetries >= 1
    /\ \E i \in 1..Len(scenarios) : scenarios[i] \in {3, 4}

\* every step of the engine is a call coming back
EveryStepComesBack == [][CallComesBack]_vars

-----------------------------------------------------------------------------
(* Failures inside a sequential run.                                       *)

\* the run lists of a sequential scenario that a scenario function returned
ReturnedSequentialRuns ==
    {results[s].runs : s \in DOMAIN results \cap {3, 4}}
        \cup {suiteResults[m][s].runs :
                m \in DOMAIN suiteResults, s \in UNION {DOMAIN suiteResults[x] \cap {3, 4} :
                                                          x \in DOMAIN suiteResults}}

\* nothing is thrown out of a sequential scenario function, a recorded run
\* that failed has no finalResponse, and a returned run list has exactly
\* runsPerScenario runs numbered 1..runsPerScenario in order
SequentialRunsAreWhole ==
    /\ pc = "threw" => scenarios[scenarioIdx] \notin {3, 4}
    /\ \A s \in {3, 4} : \A i \in 1..Len(RecordedRuns(s)) :
          LET run == RecordedRuns(s)[i]
          IN  /\ run.runNumber = i
              /\ ~run.success => run.finalResponse = Null
              /\ run.success => run.finalResponse # Null
    /\ \A returned \in ReturnedSequentialRuns :
          /\ Len(returned) = config.runsPerScenario
          /\ \A i \in 1..Len(returned) :
                /\ returned[i].runNumber = i
                /\ ~returned[i].success => returned[i].finalResponse = Null

\* the last generator call threw
LastCallThrew == lastCall # Null /\ lastCall[1].kind = "rejects"

\* the last generator call was the last attempt its step may make, and failed
LastCallExhaustedItsStep ==
    /\ lastCall # Null
    /\ lastCall[1].attempt # Null
    /\ ~lastCall[1].attempt[1].success
    /\ lastCall[1].attemptNumber = config.maxRetries + 1

\* the run list that holds the run of the last generator call
RunsOfLastCall ==
    IF pc = "awaiting" /\ scenarios[scenarioIdx] = lastCall[1].scenario
          /\ modelIds[modelIdx] = lastCall[1].modelId
    THEN runs
    ELSE IF modelIds[modelIdx] = lastCall[1].modelId
              /\ lastCall[1].scenario \in DOMAIN results
    THEN results[lastCall[1].scenario].runs
    ELSE suiteResults[lastCall[1].modelId][lastCall[1].scenario].runs

\* the run of the last generator call is recorded as failed
RunOfLastCallFailed ==
    /\ Len(RunsOfLastCall) >= lastCall[1].runNumber
    /\ ~RunsOfLastCall[lastCall[1].runNumber].success
    /\ RunsOfLastCall[lastCall[1].runNumber].finalResponse = Null

ThrownCallEndedRun ==
    /\ pc = "awaiting"
    /\ scenarios[scenarioIdx] = 3
    /\ LastCallThrew
    /\ lastCall[1].scenario = 3
    /\ Len(runs) = 1
    /\ ~runs[1].success
    /\ runs[1].finalResponse = Null
    /\ runNum = 2

-----------------------------------------------------------------------------
(* The retry context of the message lists.                                 *)

\* the attempts the step in progress has recorded, in attempt order
StepAttempts == SubSeq(attempts, Len(attempts) - (attempt - 1) + 1, Len(attempts))

\* the two retry messages built from a failed attempt
IsRetryContextOf(assistantTurn, userTurn, failed) ==
    /\ assistantTurn = Message("assistant", failed.rawResponse)
    /\ userTurn = Message("user", getRetryPrompt(failed.rawResponse,
                                                 failed.validationErrors))

\* C36: in scenario 1 every attempt rebuilds its messages from the three
\* base messages: attempt 1 sends exactly 3 messages and attempt k > 1
\* exactly 5, the base messages with the raw response and the retry
\* instruction of attempt k - 1 only; in scenario 3 the retry context
\* accumulates: attempt k of a step sends the base messages of the step and
\* then the 2(k - 1) retry messages of the attempts 1..k-1 of the step, in
\* attempt order.
C36_RetryContext ==
    pc = "awaiting" =>
        /\ scenarios[scenarioIdx] = 1 =>
              /\ attempt = Len(attempts) + 1
              /\ SubSeq(messages, 1, 3) = OneShotMessages(1)
              /\ Len(messages) = IF attempt = 1 THEN 3 ELSE 5
              /\ attempt > 1 =>
                    IsRetryContextOf(messages[4], messages[5], attempts[attempt - 1])
        /\ scenarios[scenarioIdx] = 3 =>
              LET base == step + 2
              IN  /\ Len(stepResults) = step - 1
                  /\ attempt - 1 <= Len(attempts)
                  /\ Len(messages) = base + 2 * (attempt - 1)
                  /\ SubSeq(messages, 1, base) = StepMessages(3, step, stepResults)
                  /\ messages[base] = Message("user", sequentialPrompts(step, FALSE))
                  /\ \A j \in 1..(attempt - 1) :
                        /\ StepAttempts[j].attemptNumber = j
                        /\ IsRetryContextOf(messages[base + 2 * j - 1],
                                            messages[base + 2 * j], StepAttempts[j])

\* the third attempt of a run of scenario 1 is under way and the first two
\* attempts gave different responses
C36_Witness ==
    /\ pc = "awaiting"
    /\ scenarios[scenarioIdx] = 1
    /\ attempt = 3
    /\ attempts[1].rawResponse # attempts[2].rawResponse

\* the third attempt of the second step of a run of scenario 3 is under way
AccumulatedRetryContext ==
    /\ pc = "awaiting"
    /\ scenarios[scenarioIdx] = 3
    /\ step = 2
    /\ attempt = 3
    /\ Len(messages) = 8

-----------------------------------------------------------------------------
(* The index and the result files.                                         *)

\* the ids of the entries of an index
IdsOf(entries) == {entries[k].id : k \in 1..Len(entries)}

\* an index without the entries of an id, the others in their order
RECURSIVE WithoutId(_, _)
WithoutId(entries, id) ==
    IF entries = << >> THEN << >>
    ELSE IF Head(entries).id = id THEN WithoutId(Tail(entries), id)
    ELSE << Head(entries) >> \o WithoutId(Tail(entries), id)

Smaller(a, b) == IF a < b THEN a ELSE b

\* the index holds at most one entry per run id
OneEntryPerId ==
    \A i, j \in 1..Len(indexRuns) : indexRuns[i].id = indexRuns[j].id => i = j

\* after saveTestRun(run) the entry of the run is first, and the entries
\* of the other runs follow in the order they had: an entry the id had
\* before is replaced, not kept
SavedEntryIsFirst ==
    (sOp # Null /\ sOp[1].op = "save")
        => LET run == sOp[1].arg
               before == sOp[1].before.index
           IN  /\ indexRuns[1].id = run.id
               /\ indexRuns[1].timestamp = run.timestamp
               /\ indexRuns[1].summary.totalTests = run.summary.totalTests
               /\ Tail(indexRuns) = WithoutId(before, run.id)
               /\ Len(indexRuns) = IF run.id \in IdsOf(before) THEN Len(before)
                                   ELSE Len(before) + 1

\* listRecentRuns(limit) returned the first min(limit, size) entries, none
\* for a negative limit
ListedFirstEntries ==
    (sOp # Null /\ sOp[1].op = "list")
        => LET limit == sOp[1].arg
               listed == sOp[1].returned
           IN  /\ Len(listed) = IF limit < 0 THEN 0
                                 ELSE Smaller(limit, Len(indexRuns))
               /\ \A k \in 1..Len(listed) : listed[k] = indexRuns[k]

\* C37, as stated: after any saveTestRun and deleteTestRun calls the index
\* holds at most one entry per run id; saving a run whose id is indexed
\* replaces its entry; the entry of the run saved last is first; and
\* listRecentRuns(limit) returns the first min(limit, size) entries of the
\* index, in index order.
C37_IndexIsNewestFirst ==
    /\ OneEntryPerId
    /\ SavedEntryIsFirst
    /\ ListedFirstEntries

\* the same for the limits that are not negative
IndexIsNewestFirstForCounts ==
    /\ OneEntryPerId
    /\ SavedEntryIsFirst
    /\ (sOp # Null /\ sOp[1].op = "list" /\ sOp[1].arg >= 0) => ListedFirstEntries

\* the run a load of the id gives in a store
Loaded(store, id) == loadTestRun(store, id)

\* C38, as stated: for saves and deletes of runs with distinct ids,
\* loadTestRun(id) of an id that is saved and not deleted since returns the
\* run saved last under the id, a run whose id is id, also when two runs
\* carry the same timestamp; and deleting a run never makes another run
\* unloadable.
C38_LoadReturnsSavedRun ==
    /\ \A k \in 1..Len(indexRuns) :
          LET entry == indexRuns[k]
          IN  Loaded(Store, entry.id) = Some(TestRunFile(entry.id, entry.timestamp))
    /\ (sOp # Null /\ sOp[1].op = "save")
          => Loaded(Store, sOp[1].arg.id) = Some(sOp[1].arg)
    /\ (sOp # Null /\ sOp[1].op = "load" /\ sOp[1].arg \in IdsOf(indexRuns))
          => /\ sOp[1].returned # Null
             /\ sOp[1].returned[1].id = sOp[1].arg
    /\ (sOp # Null /\ sOp[1].op = "delete")
          => \A other \in RunIds \ {sOp[1].arg} :
                Loaded(sOp[1].before, other) # Null => Loaded(Store, other) # Null

\* C39: deleteTestRun(id) of an id that is not in the index returns false
\* and leaves the index and every result file as they were; of an id that is
\* in the index it returns true and removes exactly the entry of the id, the
\* other entries keeping their order, after which loadTestRun(id) returns
\* null and a second deleteTestRun(id) returns false.
C39_DeleteRemovesOneEntry ==
    (sOp # Null /\ sOp[1].op = "delete")
        => LET id == sOp[1].arg
               before == sOp[1].before
               at == findIndex(before.index, id)
           IN  IF id \notin IdsOf(before.index)
               THEN /\ sOp[1].returned.deleted = FALSE
                    /\ sOp[1].returned.response.status = 404
                    /\ Store = before
               ELSE /\ sOp[1].returned.deleted = TRUE
                    /\ sOp[1].returned.response.status = 200
                    /\ Len(indexRuns) = Len(before.index) - 1
                    /\ indexRuns = SubSeq(before.index, 1, at)
                                      \o SubSeq(before.index, at + 2, Len(before.index))
                    /\ before.index[at + 1].id = id
                    /\ id \notin IdsOf(indexRuns)
                    /\ loadTestRun(Store, id) = Null
                    /\ deleteTestRun(Store, id) = [returned |-> FALSE, store |-> Store]

\* the entry in the middle of an index of three was deleted
C39_Witness ==
    /\ sOp # Null
    /\ sOp[1].op = "delete"
    /\ Len(sOp[1].before.index) = 3
    /\ sOp[1].before.index[2].id = sOp[1].arg
    /\ Len(indexRuns) = 2

\* a delete of an id that is not in an index of two
DeleteOfUnknownId ==
    /\ sOp # Null
    /\ sOp[1].op = "delete"
    /\ Len(indexRuns) = 2
    /\ sOp[1].arg \notin IdsOf(sOp[1].before.index)

====
